---- MODULE Spec2Model ----
(***************************************************************************)
(* A model of the self-healing control loop of Agentic-Appium-TS:          *)
(*   - HybridLocator (src/src/utils/hybrid-locator.ts): locate, the        *)
(*     healing log and getHealingStats;                                    *)
(*   - the perceive-reason-act graph (graph.ts, state.ts, observer.ts,     *)
(*     reasoner.ts, executor.ts): Observer, Reasoner, Executor, Router.    *)
(* Timestamps and console output are left out: no code reads them back.    *)
(***************************************************************************)
EXTENDS Integers, Sequences, FiniteSets, TLC

VARIABLES
    healingLog,      \* HybridLocator.healingLog: sequence of HealingEvent
    visionFallback,  \* HybridLocator.visionFallback: NoFn or a function id
    lastOp,          \* the operation that ran last
    ret,             \* what that operation returned (or that it raised)
    trace,           \* collaborator calls made by that operation, in order
    state,           \* AgentState, the record the graph's nodes share
    pc,              \* the graph node that runs next; "done", "thrown"; "idle" before runGraph
    steps,           \* graph supersteps executed so far (observer/reasoner/executor)
    observerRuns,    \* how many times the Observer node has run
    captureUp,       \* the device's screen capture works during this run
    faults,          \* transient collaborator faults injected so far
    mock             \* the MockDriver of the run: connected, currentScreenIndex

locVars == <<healingLog, visionFallback>>
callVars == <<lastOp, ret, trace>>
loopVars == <<state, pc, steps, observerRuns, captureUp, faults, mock>>
vars == <<healingLog, visionFallback, lastOp, ret, trace,
          state, pc, steps, observerRuns, captureUp, faults, mock>>

----------------------------------------------------------------------------
(* Bounds of the model. *)

MaxLog == 2          \* locate calls are explored while the healing log is shorter
MaxStatsLog == 10    \* the same, in the statistics specification
MaxFaults == 3       \* transient faults per run of the graph
MaxExecFaults == 2   \* the same, in the executor specification
MaxRetryIn == 4      \* Router inputs: retryCount in 0..MaxRetryIn
MaxIterIn == 16      \* Router inputs: iteration in 0..MaxIterIn
MaxCycles == 1       \* cycles explored by the executor specification

----------------------------------------------------------------------------
(* Optional values.  JavaScript's undefined is a marker of the same type as *)
(* the value it stands in for.                                              *)

Undef == -1                 \* an absent number (coordinates are >= 0)
NoError == "undefined"      \* an absent error text
NoFn == "undefined"         \* no vision fallback configured
NoCoord == <<>>             \* an absent {x, y} pair
Null == [kind |-> "null"]   \* JavaScript's null / no value returned

XPathError == "XPath requires direct driver access"
NotFoundError == "Element not found"
DriverNotFound == "Element with text 'v' not found"

\* a || b on strings: the empty string and undefined are falsy
OrElse(a, b) == IF a = NoError \/ a = "" THEN b ELSE a

----------------------------------------------------------------------------
(* HybridLocator *)

DriverLocatorTypes == {"accessibilityId", "resourceId", "text"}

Locators ==
    [type : DriverLocatorTypes \cup {"xpath"}, value : {"v"}]
        \cup {[type |-> "coordinates", x |-> 0, y |-> 3]}

\* What the driver's findBy... call does when it is made: it rejects
\* (AndroidDriver.getBrowser throws outside the method's try block when the
\* driver is not captureUp) or resolves to an ElementResult.
ElementResult(found, x, y, error) ==
    [raised |-> FALSE, found |-> found, x |-> x, y |-> y, error |-> error]

Raised == [raised |-> TRUE]

DriverLookups ==
    { Raised,
      ElementResult(TRUE, 1, 2, NoError),
      ElementResult(TRUE, 0, 2, NoError),
      ElementResult(TRUE, Undef, Undef, NoError),
      ElementResult(FALSE, Undef, Undef, DriverNotFound) }

\* driver.getScreenshot(): a base64 string, or it rejects
Screenshots == { Raised, [raised |-> FALSE, value |-> "png"] }

\* visionFallback(description, screenshot): {x, y}, null (NoCoord), or it rejects
VisionAnswers == { Raised, [raised |-> FALSE, value |-> NoCoord],
                   [raised |-> FALSE, value |-> <<10, 20>>] }

\* a call made on a collaborator
Call(op) == [op |-> op]

Called(calls, name) == \E i \in DOMAIN calls : calls[i].op = name

\* the answer of a collaborator that was not called
NotCalled == [called |-> FALSE]

DriverFind(type) ==
    CASE type = "accessibilityId" -> Call("findByAccessibilityId")
      [] type = "resourceId" -> Call("findByResourceId")
      [] type = "text" -> Call("findByText")

\* mutant of TrySelector: an xpath locator is looked up with findByText
TrySelectorXPathByText(locator, drv) ==
    CASE locator.type \in DriverLocatorTypes ->
            [res |-> drv, calls |-> <<DriverFind(locator.type)>>]
      [] locator.type = "xpath" ->
            [res |-> drv, calls |-> <<Call("findByText")>>]
      [] locator.type = "coordinates" ->
            [res |-> ElementResult(TRUE, locator.x, locator.y, NoError), calls |-> <<>>]

\* trySelector: the ElementResult (or rejection) and the driver calls made
TrySelector(locator, drv) ==
    CASE locator.type \in DriverLocatorTypes ->
            [res |-> drv, calls |-> <<DriverFind(locator.type)>>]
      [] locator.type = "xpath" ->
            [res |-> ElementResult(FALSE, Undef, Undef, XPathError), calls |-> <<>>]
      [] locator.type = "coordinates" ->
            [res |-> ElementResult(TRUE, locator.x, locator.y, NoError), calls |-> <<>>]

HealingEvent(locator, success, method, coordinates, error, healingTriggered) ==
    [attemptedLocator |-> locator, success |-> success, method |-> method,
     coordinates |-> coordinates, error |-> error,
     healingTriggered |-> healingTriggered]

HybridLocateResult(found, x, y, method, healingTriggered, error) ==
    [found |-> found, x |-> x, y |-> y, method |-> method,
     healingTriggered |-> healingTriggered, error |-> error]

\* hybrid-locator.ts:143
SelectorSucceeded(sel) == sel.found /\ sel.x # Undef /\ sel.y # Undef

FallbackConfiguredAlways(vf) == TRUE

\* hybrid-locator.ts:164, 202, 208
FallbackConfigured(vf) == vf # NoFn

SelectorSuccessHealed(locator, sel) ==
    [event |-> HealingEvent(locator, TRUE, "selector", <<sel.x, sel.y>>, NoError, TRUE),
     result |-> HybridLocateResult(TRUE, sel.x, sel.y, "selector", TRUE, NoError)]

\* hybrid-locator.ts:145-160
SelectorSuccess(locator, sel) ==
    [event |-> HealingEvent(locator, TRUE, "selector", <<sel.x, sel.y>>, NoError, FALSE),
     result |-> HybridLocateResult(TRUE, sel.x, sel.y, "selector", FALSE, NoError)]

VisionSuccessAsSelector(locator, xy) ==
    [event |-> HealingEvent(locator, TRUE, "selector", xy, NoError, TRUE),
     result |-> HybridLocateResult(TRUE, xy[1], xy[2], "vision", TRUE, NoError)]

\* hybrid-locator.ts:173-188
VisionSuccess(locator, xy) ==
    [event |-> HealingEvent(locator, TRUE, "vision", xy, NoError, TRUE),
     result |-> HybridLocateResult(TRUE, xy[1], xy[2], "vision", TRUE, NoError)]

LocateFailureNeverHealing(locator, sel, vf) ==
    [event |-> HealingEvent(locator, FALSE, "selector", NoCoord, sel.error, FALSE),
     result |-> HybridLocateResult(FALSE, Undef, Undef, "none", FALSE,
                                   OrElse(sel.error, NotFoundError))]

\* hybrid-locator.ts:196-210
LocateFailure(locator, sel, vf) ==
    [event |-> HealingEvent(locator, FALSE, "selector", NoCoord, sel.error,
                            FallbackConfigured(vf)),
     result |-> HybridLocateResult(FALSE, Undef, Undef, "none",
                                   FallbackConfigured(vf),
                                   OrElse(sel.error, NotFoundError))]

\* locate(locator, description) with the collaborators answering drv, shot
\* and vis when (and if) they are called.  raised: the promise rejects;
\* events: what logEvent appended; calls: collaborator calls in order.
Locate(locator, drv, shot, vis, vf) ==
    LET ts == TrySelector(locator, drv)
        sel == ts.res
        first == <<Call("trySelector")>> \o ts.calls
        failed(calls) ==
            LET f == LocateFailure(locator, sel, vf)
            IN  [raised |-> FALSE, result |-> f.result, events |-> <<f.event>>,
                 calls |-> calls]
    IN  IF sel.raised
        THEN [raised |-> TRUE, result |-> Null, events |-> <<>>, calls |-> first]
        ELSE IF SelectorSucceeded(sel)
        THEN LET s == SelectorSuccess(locator, sel)
             IN  [raised |-> FALSE, result |-> s.result, events |-> <<s.event>>,
                  calls |-> first]
        ELSE IF FallbackConfigured(vf)
        THEN IF shot.raised
             THEN failed(first \o <<Call("getScreenshot")>>)
             ELSE IF vis.raised \/ vis.value = NoCoord
             THEN failed(first \o <<Call("getScreenshot"), Call("visionFallback")>>)
             ELSE LET v == VisionSuccess(locator, vis.value)
                  IN  [raised |-> FALSE, result |-> v.result,
                       events |-> <<v.event>>,
                       calls |-> first \o <<Call("getScreenshot"), Call("visionFallback")>>]
        ELSE failed(first)

----------------------------------------------------------------------------
(* getHealingStats.  A rate is a JavaScript number n / d, kept as the      *)
(* fraction in lowest terms.                                               *)

RECURSIVE GCD(_, _)
GCD(a, b) == IF b = 0 THEN a ELSE GCD(b, a % b)

Frac(n, d) == LET g == GCD(n, d) IN <<n \div g, d \div g>>

Zero == Frac(0, 1)

\* mutant of IsSelectorSuccess: the events whose method is "selector"
IsSelectorMethod(e) == e.method = "selector"

IsSelectorSuccess(e) == e.success /\ e.method = "selector"
IsVisionSuccess(e) == e.success /\ e.method = "vision"
IsFailure(e) == ~e.success

HealingRateOfSuccesses(total, selectorSuccesses, visionSuccesses) ==
    IF total > 0 THEN Frac(selectorSuccesses + visionSuccesses, total) ELSE Zero

\* hybrid-locator.ts:262
HealingRate(total, selectorSuccesses, visionSuccesses) ==
    IF total > 0 THEN Frac(visionSuccesses, total) ELSE Zero

\* hybrid-locator.ts:247-271
GetHealingStats(log) ==
    LET total == Len(log)
        selectorSuccesses == Len(SelectSeq(log, IsSelectorSuccess))
        visionSuccesses == Len(SelectSeq(log, IsVisionSuccess))
        failures == Len(SelectSeq(log, IsFailure))
    IN  [totalAttempts |-> total,
         selectorSuccesses |-> selectorSuccesses,
         visionSuccesses |-> visionSuccesses,
         failures |-> failures,
         healingRate |-> HealingRate(total, selectorSuccesses, visionSuccesses)]

----------------------------------------------------------------------------
(* AgentState and its reducers (state.ts) *)

NullAction == [action |-> "null"]

\* runGraph's initial state (graph.ts:110-119) over the channels' defaults;
\* screenshot and uiTree hold the number of the observation they come from,
\* 0 for the initial "" and [].
InitialState ==
    [goal |-> "goal", screenshot |-> 0, uiTree |-> 0, actionHistory |-> <<>>,
     retryCount |-> 0, errors |-> <<>>, isComplete |-> FALSE,
     lastAction |-> NullAction, iteration |-> 0]

\* mutant of EmptyPatch: the retry count is reset
EmptyPatchResetting == [retryCount |-> 0]

EmptyPatch == <<>>

\* mutant of Reduce: the two sequences are replaced like the other channels
ReduceReplacing(field, prev, next) ==
    IF field = "iteration" THEN (IF next = 0 THEN 0 ELSE prev + 1) ELSE next

\* the reducer of each channel
Reduce(field, prev, next) ==
    CASE field \in {"actionHistory", "errors"} -> prev \o next
      [] field = "iteration" -> IF next = 0 THEN 0 ELSE prev + 1
      [] OTHER -> next

\* the state after a node returned `patch`: only the fields it names change
Merge(s, patch) ==
    [f \in DOMAIN s |->
        IF f \in DOMAIN patch THEN Reduce(f, s[f], patch[f]) ELSE s[f]]

----------------------------------------------------------------------------
(* Router (graph.ts) *)

MAX_RETRIES == 3
MAX_ITERATIONS == 15

RecursionLimitLoose == MAX_ITERATIONS * 4

\* graph.ts:126
RecursionLimit == MAX_ITERATIONS * 3

RouterStrict(s) ==
    IF s.isComplete THEN "end"
    ELSE IF s.retryCount > MAX_RETRIES THEN "end"
    ELSE IF s.iteration >= MAX_ITERATIONS THEN "end"
    ELSE "continue"

\* graph.ts:23-41
Router(s) ==
    IF s.isComplete THEN "end"
    ELSE IF s.retryCount >= MAX_RETRIES THEN "end"
    ELSE IF s.iteration >= MAX_ITERATIONS THEN "end"
    ELSE "continue"

FinalStateStrict(s) ==
    IF s.isComplete THEN "completed"
    ELSE IF s.retryCount > 3 THEN "max_retries"
    ELSE "failed"

\* index.ts:527-531
FinalState(s) ==
    IF s.isComplete THEN "completed"
    ELSE IF s.retryCount >= 3 THEN "max_retries"
    ELSE "failed"

----------------------------------------------------------------------------
(* Observer and Reasoner nodes *)

ObserverPatchBlanking(n, captureFails) ==
    IF captureFails
    THEN [errors |-> <<"observer">>, screenshot |-> 0, uiTree |-> 0]
    ELSE [screenshot |-> n, uiTree |-> n, iteration |-> 1]

\* observer.ts:20-47; n is the number of this observation
ObserverPatch(n, captureFails) ==
    IF captureFails
    THEN [errors |-> <<"observer">>]
    ELSE [screenshot |-> n, uiTree |-> n, iteration |-> 1]

\* reasoner.ts: reasoner(state) when the service call and the parse end in
\* `answer`: [ok |-> FALSE] or [ok |-> TRUE, action |-> a]
ReasonerPatch(s, answer) ==
    IF s.isComplete THEN EmptyPatch
    ELSE IF answer.ok THEN [lastAction |-> answer.action]
    ELSE [errors |-> <<"reasoner">>, retryCount |-> s.retryCount + 1]

----------------------------------------------------------------------------
(* Executor node (executor.ts) *)

DEFAULT_WAIT_MS == 500
DEFAULT_SWIPE_DURATION == 300
FOCUS_WAIT_MS == 200

NoSelector == [type |-> "none"]
NoText == "undefined"
NoDirection == "undefined"

\* a ReasonerOutput: the action kind and the parameters the executor reads
Action(kind, x, y, text, direction, duration, selector) ==
    [action |-> kind, x |-> x, y |-> y, text |-> text, direction |-> direction,
     duration |-> duration, selector |-> selector]

Plain(kind) == Action(kind, Undef, Undef, NoText, NoDirection, Undef, NoSelector)

TapCall(x, y) == [op |-> "tap", x |-> x, y |-> y]
TypeCall(text) == [op |-> "type", text |-> text]
SwipeCall(direction, ms) == [op |-> "swipe", direction |-> direction, ms |-> ms]
WaitCall(ms) == [op |-> "waitFor", ms |-> ms]

\* executor.ts:12-25 (every hint of the model carries its value)
SelectorToLocator(selector) ==
    IF selector.type = "coordinates"
    THEN [type |-> "coordinates", x |-> selector.x, y |-> selector.y]
    ELSE [type |-> selector.type, value |-> selector.value]

\* executor.ts:59, 101
HasSelectorHint(a) ==
    a.selector # NoSelector /\ a.selector.type # "coordinates"

OneIf(b) == IF b THEN 1 ELSE 0

\* What the collaborators do during one executor run: env.drv, env.shot and
\* env.vis answer locate; env.tap, env.typ, env.swipe tell whether the
\* driver's tap, type and swipe raise; env.fb whether the driver call made in
\* a catch block (the fallback tap or type) raises.

\* how many collaborator calls of a locate raised
LocateRaises(loc, env) ==
    OneIf(loc.raised)
    + OneIf(Called(loc.calls, "getScreenshot") /\ env.shot.raised)
    + OneIf(Called(loc.calls, "visionFallback") /\ env.vis.raised)

Rejected(events, calls, raises) ==
    [raised |-> TRUE, events |-> events, calls |-> calls, raises |-> raises]

\* mutant of TapLocated: the result of locate is tapped without a look at found
TapLocatedUnchecked(loc, env) ==
    IF loc.raised
    THEN Rejected(loc.events, loc.calls, LocateRaises(loc, env))
    ELSE [raised |-> FALSE, events |-> loc.events,
          calls |-> loc.calls \o <<TapCall(loc.result.x, loc.result.y)>>,
          raises |-> LocateRaises(loc, env), x |-> loc.result.x,
          y |-> loc.result.y, method |-> loc.result.method]

\* hybrid-locator.ts:222-227: locateAndTap once locate has ended in loc
TapLocated(loc, env) ==
    IF loc.raised
    THEN Rejected(loc.events, loc.calls, LocateRaises(loc, env))
    ELSE IF ~loc.result.found \/ loc.result.x = Undef \/ loc.result.y = Undef
    THEN Rejected(loc.events, loc.calls, LocateRaises(loc, env))
    ELSE IF env.tap
    THEN Rejected(loc.events,
                  loc.calls \o <<TapCall(loc.result.x, loc.result.y)>>,
                  LocateRaises(loc, env) + 1)
    ELSE [raised |-> FALSE, events |-> loc.events,
          calls |-> loc.calls \o <<TapCall(loc.result.x, loc.result.y)>>,
          raises |-> LocateRaises(loc, env), x |-> loc.result.x,
          y |-> loc.result.y, method |-> loc.result.method]

\* hybrid-locator.ts:216-228
LocateAndTap(locator, env, vf) ==
    TapLocated(Locate(locator, env.drv, env.shot, env.vis, vf), env)

\* mutant of TypeTapped: the text is typed without the wait for focus
TypeTappedAtOnce(t, text, env) ==
    IF t.raised THEN t
    ELSE [t EXCEPT !.calls = @ \o <<TypeCall(text)>>]

\* hybrid-locator.ts:239-241: locateAndType once locateAndTap has ended in t
TypeTapped(t, text, env) ==
    IF t.raised THEN t
    ELSE IF env.typ
    THEN Rejected(t.events,
                  t.calls \o <<WaitCall(FOCUS_WAIT_MS), TypeCall(text)>>,
                  t.raises + 1)
    ELSE [t EXCEPT !.calls = @ \o <<WaitCall(FOCUS_WAIT_MS), TypeCall(text)>>]

\* hybrid-locator.ts:233-242
LocateAndType(locator, text, env, vf) ==
    TypeTapped(LocateAndTap(locator, env, vf), text, env)

\* the body of the executor's try block up to its break, return or throw:
\* ok, the history entry, the healing events logged, the calls made and how
\* many of them raised
Body(ok, entry, events, calls, raises) ==
    [ok |-> ok, entry |-> entry, events |-> events, calls |-> calls,
     raises |-> raises]

\* executor.ts:60-80: the click once locateAndTap has ended in r
ClickLocated(a, r, env) ==
    IF ~r.raised
    THEN Body(TRUE, "Clicked", r.events, r.calls, r.raises)
    ELSE IF a.x # Undef /\ a.y # Undef
    THEN Body(~env.fb, "Clicked", r.events,
              r.calls \o <<TapCall(a.x, a.y)>>, r.raises + OneIf(env.fb))
    ELSE Body(FALSE, "Clicked", r.events, r.calls, r.raises)

\* executor.ts:57-92
ExecClick(a, env, vf) ==
    IF HasSelectorHint(a)
    THEN ClickLocated(a, LocateAndTap(SelectorToLocator(a.selector), env, vf), env)
    ELSE IF a.x = Undef \/ a.y = Undef
    THEN Body(FALSE, "Clicked", <<>>, <<>>, 0)
    ELSE Body(~env.tap, "Clicked", <<>>, <<TapCall(a.x, a.y)>>, OneIf(env.tap))

\* executor.ts:102-118: the type once locateAndType has ended in r
TypeLocated(a, r, env) ==
    IF ~r.raised
    THEN Body(TRUE, "Typed", r.events, r.calls, r.raises)
    ELSE Body(~env.fb, "Typed", r.events,
              r.calls \o <<TypeCall(a.text)>>, r.raises + OneIf(env.fb))

\* executor.ts:94-126
ExecType(a, env, vf) ==
    IF a.text = NoText \/ a.text = ""
    THEN Body(FALSE, "Typed", <<>>, <<>>, 0)
    ELSE IF HasSelectorHint(a)
    THEN TypeLocated(a, LocateAndType(SelectorToLocator(a.selector), a.text,
                                      env, vf), env)
    ELSE Body(~env.typ, "Typed", <<>>, <<TypeCall(a.text)>>, OneIf(env.typ))

\* executor.ts:128-137
ExecSwipe(a, env) ==
    IF a.direction = NoDirection
    THEN Body(FALSE, "Scrolled", <<>>, <<>>, 0)
    ELSE Body(~env.swipe, "Scrolled", <<>>,
              <<SwipeCall(a.direction, DEFAULT_SWIPE_DURATION)>>, OneIf(env.swipe))

\* executor.ts:139-144; waitFor is a timer and does not raise
ExecWait(a) ==
    LET duration == IF a.duration = Undef \/ a.duration = 0
                    THEN DEFAULT_WAIT_MS ELSE a.duration
    IN  Body(TRUE, "Waited", <<>>, <<WaitCall(duration)>>, 0)

SuccessPatchCompleting(entry) ==
    [actionHistory |-> <<entry>>, retryCount |-> 0, isComplete |-> TRUE]

DonePatchSilent(s) == [isComplete |-> TRUE]

\* executor.ts:161-164
DonePatch(s) ==
    [isComplete |-> TRUE, actionHistory |-> <<"Goal completed">>]

\* executor.ts:176-180
SuccessPatch(entry) == [actionHistory |-> <<entry>>, retryCount |-> 0]

\* mutant of FailurePatch: the failure is recorded and not counted
FailurePatchUncounted(s) ==
    [errors |-> <<"executor">>, actionHistory |-> <<"FAILED">>]

\* executor.ts:186-190
FailurePatch(s) ==
    [errors |-> <<"executor">>, retryCount |-> s.retryCount + 1,
     actionHistory |-> <<"FAILED">>]

NodeResult(outcome, patch, events, calls, raises) ==
    [outcome |-> outcome, patch |-> patch, events |-> events, calls |-> calls,
     raises |-> raises]

\* executor.ts:147-158
ExecBody(a, env, vf) ==
    CASE a.action = "click" -> ExecClick(a, env, vf)
      [] a.action = "type" -> ExecType(a, env, vf)
      [] a.action \in {"swipe", "scroll"} -> ExecSwipe(a, env)
      [] a.action = "wait" -> ExecWait(a)
      [] OTHER -> Body(FALSE, "Unknown", <<>>, <<>>, 0)

\* executor.ts:170-191: after the switch
Conclude(s, body) ==
    IF body.ok
    THEN NodeResult("ok", SuccessPatch(body.entry), body.events,
                    body.calls \o <<WaitCall(DEFAULT_WAIT_MS)>>, body.raises)
    ELSE NodeResult("failed", FailurePatch(s), body.events, body.calls,
                    body.raises)

\* executor.ts:42-192: executor(state) with the collaborators behaving as env
Exec(s, env, vf) ==
    IF s.lastAction = NullAction
    THEN NodeResult("noop", EmptyPatch, <<>>, <<>>, 0)
    ELSE IF s.lastAction.action = "done"
    THEN NodeResult("done", DonePatch(s), <<>>, <<>>, 0)
    ELSE Conclude(s, ExecBody(s.lastAction, env, vf))

\* android.driver.ts:341-356: a MockDriver as constructed
NewMockDriver == [connected |-> FALSE, currentScreenIndex |-> 0]

\* the loop's variables while no graph runs
LoopIdle ==
    /\ state = InitialState
    /\ pc = "idle"
    /\ steps = 0
    /\ observerRuns = 0
    /\ captureUp = TRUE
    /\ faults = 0
    /\ mock = NewMockDriver

----------------------------------------------------------------------------
(* Operations of a HybridLocator *)

\* hybrid-locator.ts:136-211, as one call from a client
LocateCall(locators, lookups, screenshots, answers, maxLen) ==
    /\ Len(healingLog) < maxLen
    /\ \E locator \in locators, drv \in lookups, shot \in screenshots,
          vis \in answers :
          LET r == Locate(locator, drv, shot, vis, visionFallback)
          IN  /\ healingLog' = healingLog \o r.events
              /\ lastOp' = "locate"
              /\ ret' = [raised |-> r.raised, result |-> r.result,
                         locator |-> locator,
                         sel |-> TrySelector(locator, drv).res,
                         shot |-> IF Called(r.calls, "getScreenshot")
                                  THEN shot ELSE NotCalled,
                         vis |-> IF Called(r.calls, "visionFallback")
                                 THEN vis ELSE NotCalled]
              /\ trace' = r.calls
    /\ UNCHANGED <<visionFallback, loopVars>>

\* hybrid-locator.ts:57-59
SetVisionFallback ==
    /\ visionFallback' = "ollama"
    /\ lastOp' = "setVisionFallback"
    /\ ret' = Null
    /\ trace' = <<>>
    /\ UNCHANGED <<healingLog, loopVars>>

\* hybrid-locator.ts:71-73
ClearHealingLog ==
    /\ healingLog' = <<>>
    /\ lastOp' = "clearHealingLog"
    /\ ret' = Null
    /\ trace' = <<>>
    /\ UNCHANGED <<visionFallback, loopVars>>

\* hybrid-locator.ts:247-271
GetHealingStatsCall ==
    /\ lastOp' = "getHealingStats"
    /\ ret' = GetHealingStats(healingLog)
    /\ trace' = <<>>
    /\ UNCHANGED <<healingLog, visionFallback, loopVars>>

LocateAny == LocateCall(Locators, DriverLookups, Screenshots, VisionAnswers, MaxLog)

\* new HybridLocator(driver, visionFallback?)
InitLocator ==
    /\ healingLog = <<>>
    /\ visionFallback \in {NoFn, "ollama"}
    /\ lastOp = "new"
    /\ ret = Null
    /\ trace = <<>>
    /\ LoopIdle

NextLocator ==
    \/ LocateAny
    \/ SetVisionFallback
    \/ ClearHealingLog
    \/ GetHealingStatsCall

SpecLocator == InitLocator /\ [][NextLocator]_vars

(* The statistics specification: one locator, the driver finding the       *)
(* element or not, the fallback answering or not, over a long log.         *)

StatsLocator == {[type |-> "text", value |-> "v"]}
StatsLookups == {ElementResult(TRUE, 1, 2, NoError),
                 ElementResult(FALSE, Undef, Undef, DriverNotFound)}
StatsScreenshots == {[raised |-> FALSE, value |-> "png"]}
StatsAnswers == {[raised |-> FALSE, value |-> NoCoord],
                 [raised |-> FALSE, value |-> <<10, 20>>]}

StatsLocate ==
    LocateCall(StatsLocator, StatsLookups, StatsScreenshots, StatsAnswers, MaxStatsLog)

InitStats ==
    /\ healingLog = <<>>
    /\ visionFallback = "ollama"
    /\ lastOp = "new"
    /\ ret = Null
    /\ trace = <<>>
    /\ LoopIdle

NextStats ==
    \/ StatsLocate
    \/ GetHealingStatsCall

SpecStats == InitStats /\ [][NextStats]_vars

(* locateAndTap and locateAndType called by a client of the locator        *)

Descriptions == {"Login button", "Username field"}

\* one locator that asks the driver, one that cannot and one that need not
TapLocators ==
    {[type |-> "text", value |-> "v"], [type |-> "xpath", value |-> "v"],
     [type |-> "coordinates", x |-> 0, y |-> 3]}

TapEnvs(typ) ==
    [drv : DriverLookups, shot : Screenshots, vis : VisionAnswers,
     tap : BOOLEAN, typ : typ, swipe : {FALSE}, fb : {FALSE}]

DriverError == [name |-> "Error", message |-> "driver"]
NoThrow == [name |-> "none"]

\* hybrid-locator.ts:223: `Failed to locate element: ${elementDescription}. ${result.error || ""}`
LocationError(elementDescription, error) ==
    [name |-> "Error", message |-> "Failed to locate element",
     elementDescription |-> elementDescription, detail |-> OrElse(error, "")]

\* what the promise of locateAndTap or locateAndType rejects with
Rejection(loc, r, elementDescription) ==
    IF ~r.raised THEN NoThrow
    ELSE IF loc.raised THEN DriverError
    ELSE IF ~loc.result.found \/ loc.result.x = Undef \/ loc.result.y = Undef
    THEN LocationError(elementDescription, loc.result.error)
    ELSE DriverError

Returned(op, loc, r, elementDescription, text) ==
    [op |-> op, raised |-> r.raised,
     located |-> [raised |-> loc.raised, result |-> loc.result],
     elementDescription |-> elementDescription, text |-> text,
     error |-> Rejection(loc, r, elementDescription),
     value |-> IF r.raised THEN Null
               ELSE [x |-> r.x, y |-> r.y, method |-> r.method]]

\* hybrid-locator.ts:216-228, as one call from a client
LocateAndTapCall ==
    /\ Len(healingLog) < MaxLog
    /\ \E locator \in TapLocators, d \in Descriptions, env \in TapEnvs({FALSE}) :
          \E loc \in {Locate(locator, env.drv, env.shot, env.vis, visionFallback)} :
             \E r \in {TapLocated(loc, env)} :
                /\ healingLog' = healingLog \o r.events
                /\ lastOp' = "locateAndTap"
                /\ ret' = Returned("locateAndTap", loc, r, d, NoText)
                /\ trace' = r.calls
    /\ UNCHANGED <<visionFallback, loopVars>>

\* hybrid-locator.ts:233-242, as one call from a client
LocateAndTypeCall ==
    /\ Len(healingLog) < MaxLog
    /\ \E locator \in TapLocators, d \in Descriptions, env \in TapEnvs(BOOLEAN) :
          \E loc \in {Locate(locator, env.drv, env.shot, env.vis, visionFallback)} :
             \E r \in {TypeTapped(TapLocated(loc, env), "testuser", env)} :
                /\ healingLog' = healingLog \o r.events
                /\ lastOp' = "locateAndType"
                /\ ret' = Returned("locateAndType", loc, r, d, "testuser")
                /\ trace' = r.calls
    /\ UNCHANGED <<visionFallback, loopVars>>

NextTap ==
    \/ LocateAndTapCall
    \/ LocateAndTypeCall
    \/ SetVisionFallback

SpecTap == InitLocator /\ [][NextTap]_vars

----------------------------------------------------------------------------
(* The graph: START -> observer -> reasoner -> executor -> router           *)
(* (graph.ts:85-97), run by runGraph under recursionLimit.                  *)

NodeReady(node) == pc = node /\ steps < RecursionLimit

\* a transient fault may be injected while the budget lasts
CanFault(n, budget) == faults + n <= budget

\* observer.ts:17-48
Observer(maxCycles, budget) ==
    /\ NodeReady("observer")
    /\ observerRuns < maxCycles
    /\ \E captureFails \in BOOLEAN :
          /\ captureUp => (~captureFails \/ CanFault(1, budget))
          /\ ~captureUp => captureFails
          /\ state' = Merge(state, ObserverPatch(observerRuns + 1, captureFails))
          /\ faults' = faults + OneIf(captureUp /\ captureFails)
          /\ ret' = [outcome |-> IF captureFails THEN "failed" ELSE "ok"]
    /\ observerRuns' = observerRuns + 1
    /\ steps' = steps + 1
    /\ pc' = "reasoner"
    /\ lastOp' = "observer"
    /\ trace' = <<Call("getScreenshot"), Call("getPageSource")>>
    /\ UNCHANGED <<healingLog, visionFallback, captureUp, mock>>

\* reasoner.ts: createReasonerNode
Reasoner(pool, budget) ==
    /\ NodeReady("reasoner")
    /\ \E answer \in {[ok |-> FALSE]} \cup [ok : {TRUE}, action : pool] :
          /\ ~answer.ok => CanFault(1, budget)
          /\ state' = Merge(state, ReasonerPatch(state, answer))
          /\ faults' = faults + OneIf(~answer.ok)
          /\ ret' = [outcome |-> IF answer.ok THEN "ok" ELSE "failed"]
    /\ steps' = steps + 1
    /\ pc' = "executor"
    /\ lastOp' = "reasoner"
    /\ trace' = <<Call("fetch")>>
    /\ UNCHANGED <<healingLog, visionFallback, observerRuns, captureUp, mock>>

\* the collaborators' possible behaviours during one run of the executor on
\* action a; what a path never asks is pinned
ExecEnvs(a) ==
    LET locates == a.action \in {"click", "type"} /\ HasSelectorHint(a)
    IN  [drv : IF locates THEN DriverLookups ELSE {Raised},
         shot : IF ~captureUp THEN {Raised}
                ELSE IF locates THEN Screenshots ELSE {Raised},
         vis : IF locates THEN VisionAnswers ELSE {Raised},
         tap : IF a.action \in {"click", "type"} THEN BOOLEAN ELSE {FALSE},
         typ : IF a.action = "type" THEN BOOLEAN ELSE {FALSE},
         swipe : IF a.action \in {"swipe", "scroll"} THEN BOOLEAN ELSE {FALSE},
         fb : IF locates THEN BOOLEAN ELSE {FALSE}]

\* a screenshot that fails because capture is down is no transient fault
TransientRaises(r) ==
    r.raises - OneIf(~captureUp /\ Called(r.calls, "getScreenshot"))

\* executor.ts:42-192, the collaborators behaving as one of envs
ExecutorOn(envs, budget) ==
    /\ NodeReady("executor")
    /\ \E env \in envs :
         \E r \in {Exec(state, env, visionFallback)} :
          /\ CanFault(TransientRaises(r), budget)
          /\ state' = Merge(state, r.patch)
          /\ healingLog' = healingLog \o r.events
          /\ faults' = faults + TransientRaises(r)
          /\ ret' = [outcome |-> r.outcome, action |-> state.lastAction]
          /\ trace' = r.calls
    /\ steps' = steps + 1
    /\ pc' = "router"
    /\ lastOp' = "executor"
    /\ UNCHANGED <<visionFallback, observerRuns, captureUp>>

\* executor.ts:42-192, on a driver that may fail
Executor(budget) ==
    /\ ExecutorOn(ExecEnvs(state.lastAction), budget)
    /\ UNCHANGED mock

TargetReasoner(route) == IF route = "continue" THEN "reasoner" ELSE "done"

\* graph.ts:92-95: where each answer of the router leads; "done" is END
Target(route) == IF route = "continue" THEN "observer" ELSE "done"

\* graph.ts:92-95: the conditional edge after the executor.  When the graph
\* ends in the superstep that exhausts recursionLimit, the library version
\* decides whether invoke returns or raises GraphRecursionError.
Route ==
    /\ pc = "router"
    /\ LET r == Router(state)
       IN  /\ ret' = [route |-> r]
           /\ pc' \in IF Target(r) # "done" THEN {Target(r)}
                      ELSE IF steps >= RecursionLimit THEN {"done", "thrown"}
                      ELSE {"done"}
    /\ lastOp' = "router"
    /\ trace' = <<>>
    /\ UNCHANGED <<healingLog, visionFallback, state, steps, observerRuns,
                   captureUp, faults, mock>>

\* graph.ts:125-127: a node is due and recursionLimit supersteps have run
RecursionError ==
    /\ pc \in {"observer", "reasoner", "executor"}
    /\ steps >= RecursionLimit
    /\ pc' = "thrown"
    /\ lastOp' = "invoke"
    /\ ret' = Null
    /\ trace' = <<>>
    /\ UNCHANGED <<healingLog, visionFallback, state, steps, observerRuns,
                   captureUp, faults, mock>>

\* index.ts:522-535: the ExecutionResult built from runGraph's final state
ExecutionResult(s) ==
    [success |-> s.isComplete, goal |-> s.goal,
     actionHistory |-> s.actionHistory, finalState |-> FinalState(s),
     errors |-> s.errors]

\* mutant of RunAutomationEnd: without the finally block
RunAutomationEndNoFinally ==
    /\ pc \in {"done", "thrown"}
    /\ pc' = IF pc = "done" THEN "returned" ELSE "rejected"
    /\ ret' = IF pc = "done" THEN ExecutionResult(state) ELSE Raised
    /\ lastOp' = "runAutomation"
    /\ trace' = IF pc = "done" THEN <<Call("disconnect")>> ELSE <<>>
    /\ UNCHANGED <<healingLog, visionFallback, state, steps, observerRuns,
                   captureUp, faults, mock>>

\* index.ts:511-539: runAutomation after runGraph: it returns the result, or
\* the fault runGraph raised passes through its try/finally
RunAutomationEnd ==
    /\ pc \in {"done", "thrown"}
    /\ pc' = IF pc = "done" THEN "returned" ELSE "rejected"
    /\ ret' = IF pc = "done" THEN ExecutionResult(state) ELSE Raised
    /\ lastOp' = "runAutomation"
    /\ trace' = <<Call("disconnect")>>
    /\ UNCHANGED <<healingLog, visionFallback, state, steps, observerRuns,
                   captureUp, faults, mock>>

\* runGraph(config, goal): createAutomationGraph, then invoke(initialState)
InitGraph ==
    /\ healingLog = <<>>
    /\ visionFallback \in {NoFn, "ollama"}
    /\ lastOp = "runGraph"
    /\ ret = Null
    /\ trace = <<>>
    /\ state = InitialState
    /\ pc = "observer"
    /\ steps = 0
    /\ observerRuns = 0
    /\ captureUp \in BOOLEAN
    /\ faults = 0
    /\ mock = NewMockDriver

(* The loop specification: whole runs, the reasoner deciding a tap at given *)
(* coordinates or done.                                                     *)

LoopActions == {Action("click", 4, 6, NoText, NoDirection, Undef, NoSelector),
                Plain("done")}

LoopObserver == Observer(RecursionLimit, MaxFaults)
LoopReasoner == Reasoner(LoopActions, MaxFaults)
LoopExecutor == Executor(MaxFaults)

NextLoop ==
    \/ LoopObserver
    \/ LoopReasoner
    \/ LoopExecutor
    \/ Route
    \/ RecursionError
    \/ RunAutomationEnd

SpecLoop == InitGraph /\ [][NextLoop]_vars

(* runAutomation from the start: the driver is made, connect is awaited    *)
(* inside the try block, and runGraph follows if it resolves.              *)

\* index.ts:511-513: await driver.connect() resolves, or it rejects and the
\* try block is left
Connect ==
    /\ pc = "connect"
    /\ \E connects \in BOOLEAN :
          /\ pc' = IF connects THEN "observer" ELSE "thrown"
          /\ ret' = IF connects THEN Null ELSE Raised
    /\ lastOp' = "connect"
    /\ trace' = <<Call("connect")>>
    /\ UNCHANGED <<healingLog, visionFallback, state, steps, observerRuns,
                   captureUp, faults, mock>>

\* index.ts:505-509: createDriver(driverType, androidConfig)
InitRun ==
    /\ healingLog = <<>>
    /\ visionFallback \in {NoFn, "ollama"}
    /\ lastOp = "createDriver"
    /\ ret = Null
    /\ trace = <<>>
    /\ state = InitialState
    /\ pc = "connect"
    /\ steps = 0
    /\ observerRuns = 0
    /\ captureUp \in BOOLEAN
    /\ faults = 0
    /\ mock = NewMockDriver

NextRun ==
    \/ Connect
    \/ Observer(RecursionLimit, MaxExecFaults)
    \/ Reasoner(LoopActions, MaxExecFaults)
    \/ Executor(MaxExecFaults)
    \/ Route
    \/ RecursionError
    \/ RunAutomationEnd

SpecRun == InitRun /\ [][NextRun]_vars

(* The Observer step by step: both captures are started, each settles on    *)
(* its own, and the Observer goes on when Promise.all has settled.          *)

MaxObserveCycles == 2

NotConnected == "AndroidDriver not connected. Call connect() first."

\* what a capture will settle with: a value, or a rejection with a message
Captures(message) ==
    IF captureUp
    THEN {[ok |-> TRUE], [ok |-> FALSE, error |-> message]}
    ELSE {[ok |-> FALSE, error |-> NotConnected]}

\* observer.ts:22-25: the two calls are made, neither has settled
ObserverStart ==
    /\ NodeReady("observer")
    /\ observerRuns < MaxObserveCycles
    /\ \E shot \in Captures("takeScreenshot failed"),
          src \in Captures("getPageSource failed") :
          ret' = [getScreenshot |-> shot, getPageSource |-> src, settled |-> <<>>]
    /\ pc' = "capturing"
    /\ lastOp' = "Promise.all"
    /\ trace' = <<Call("getScreenshot"), Call("getPageSource")>>
    /\ UNCHANGED <<healingLog, visionFallback, state, steps, observerRuns,
                   captureUp, faults, mock>>

HasSettled(call) == \E i \in DOMAIN ret.settled : ret.settled[i] = call

\* one of the two captures resolves or rejects
Settle(call) ==
    /\ pc = "capturing"
    /\ ~HasSettled(call)
    /\ ret' = [ret EXCEPT !.settled = @ \o <<call>>]
    /\ lastOp' = call
    /\ UNCHANGED <<healingLog, visionFallback, trace, loopVars>>

\* Promise.all: rejected with the first rejection, resolved when both have
\* resolved, pending otherwise
PromiseAll(captures, settled) ==
    IF \E i \in DOMAIN settled : ~captures[settled[i]].ok
    THEN [status |-> "rejected",
          error |-> captures[settled[CHOOSE i \in DOMAIN settled :
                                 /\ ~captures[settled[i]].ok
                                 /\ \A j \in 1..(i - 1) : captures[settled[j]].ok]].error]
    ELSE IF Len(settled) = 2 THEN [status |-> "resolved"]
    ELSE [status |-> "pending"]

\* observer.ts:27-46: what the Observer returns once Promise.all has settled
AwaitedPatch(n, all) ==
    IF all.status = "resolved"
    THEN [screenshot |-> n, uiTree |-> n, iteration |-> 1]
    ELSE [errors |-> <<all.error>>]

\* observer.ts:27-46
ObserverEnd ==
    /\ pc = "capturing"
    /\ \E all \in {PromiseAll(ret, ret.settled)} :
          /\ all.status # "pending"
          /\ state' = Merge(state, AwaitedPatch(observerRuns + 1, all))
          /\ ret' = [outcome |-> IF all.status = "resolved" THEN "ok" ELSE "failed",
                     getScreenshot |-> ret.getScreenshot,
                     getPageSource |-> ret.getPageSource,
                     settled |-> ret.settled]
    /\ observerRuns' = observerRuns + 1
    /\ steps' = steps + 1
    /\ pc' = "reasoner"
    /\ lastOp' = "observer"
    /\ UNCHANGED <<healingLog, visionFallback, trace, captureUp, faults, mock>>

NextObserve ==
    \/ ObserverStart
    \/ Settle("getScreenshot")
    \/ Settle("getPageSource")
    \/ ObserverEnd
    \/ Reasoner(LoopActions, 0)
    \/ Executor(0)
    \/ Route

SpecObserve == InitGraph /\ [][NextObserve]_vars

(* The executor specification: the first cycles of a run, the reasoner      *)
(* deciding any action.                                                     *)

TextHint == [type |-> "text", value |-> "v"]
XPathHint == [type |-> "xpath", value |-> "v"]
CoordinatesHint == [type |-> "coordinates", x |-> 0, y |-> 3]

ExecActions ==
    {Action("click", xy[1], xy[2], NoText, NoDirection, Undef, sel) :
        xy \in {<<Undef, Undef>>, <<4, 6>>},
        sel \in {NoSelector, TextHint, XPathHint, CoordinatesHint}}
    \cup {Action("type", Undef, Undef, text, NoDirection, Undef, sel) :
        text \in {NoText, "", "abc"},
        sel \in {NoSelector, TextHint, CoordinatesHint}}
    \cup {Action(kind, Undef, Undef, NoText, dir, Undef, NoSelector) :
        kind \in {"swipe", "scroll"}, dir \in {NoDirection, "up"}}
    \cup {Action("wait", Undef, Undef, NoText, NoDirection, d, NoSelector) :
        d \in {Undef, 0, 200}}
    \cup {Plain("done"), Plain("longPress")}

ExecObserver == Observer(MaxCycles, MaxExecFaults)
ExecReasoner == Reasoner(ExecActions, MaxExecFaults)
ExecExecutor == Executor(MaxExecFaults)

NextExec ==
    \/ ExecObserver
    \/ ExecReasoner
    \/ ExecExecutor
    \/ Route

SpecExec == InitGraph /\ [][NextExec]_vars

(* The executor of createExecutorWithHealingAccess called by a client.      *)
(* healingLog is the log of the hybridLocator the two accessors read; trace *)
(* holds the calls made in all the executor's calls so far, those of the    *)
(* node's locator to its logEvent at the end of each; steps counts the      *)
(* executor's calls.                                                        *)

MaxAccessCalls == 2

AccessActions == {a \in ExecActions : a.action = "click"} \cup {NullAction}

\* executor.ts:209-216: every call makes a node of its own with
\* createExecutorNode, which makes that node a HybridLocator of its own
\* (executor.ts:40); the node's locator logs the events and is dropped
AccessExecutor ==
    /\ steps < MaxAccessCalls
    /\ \E action \in AccessActions :
         \E env \in ExecEnvs(action) :
          \E r \in {Exec([state EXCEPT !.lastAction = action], env, visionFallback)} :
             /\ state' = Merge([state EXCEPT !.lastAction = action], r.patch)
             /\ ret' = [outcome |-> r.outcome, action |-> action,
                        healingLog |-> r.events]
             /\ trace' = trace \o r.calls
                           \o [i \in 1..Len(r.events) |-> Call("logEvent")]
    /\ healingLog' = healingLog
    /\ steps' = steps + 1
    /\ lastOp' = "executor"
    /\ UNCHANGED <<visionFallback, pc, observerRuns, captureUp, faults, mock>>

\* executor.ts:221: getHealingStats: () => hybridLocator.getHealingStats()
AccessGetHealingStats ==
    /\ lastOp' = "getHealingStats"
    /\ ret' = GetHealingStats(healingLog)
    /\ UNCHANGED <<healingLog, visionFallback, trace, loopVars>>

\* executor.ts:207: const hybridLocator = new HybridLocator(driver, visionFallback)
InitAccess ==
    /\ healingLog = <<>>
    /\ visionFallback \in {NoFn, "ollama"}
    /\ lastOp = "createExecutorWithHealingAccess"
    /\ ret = Null
    /\ trace = <<>>
    /\ LoopIdle

NextAccess ==
    \/ AccessExecutor
    \/ AccessGetHealingStats

SpecAccess == InitAccess /\ [][NextAccess]_vars

(* The router specification: the router on any state.                       *)

InitRouter ==
    /\ healingLog = <<>>
    /\ visionFallback = NoFn
    /\ lastOp = "executor"
    /\ ret = Null
    /\ trace = <<>>
    /\ \E c \in BOOLEAN, r \in 0..MaxRetryIn, i \in 0..MaxIterIn :
          state = [InitialState EXCEPT !.isComplete = c, !.retryCount = r,
                                       !.iteration = i]
    /\ pc = "router"
    /\ steps = 0
    /\ observerRuns = 0
    /\ captureUp = TRUE
    /\ faults = 0
    /\ mock = NewMockDriver

NextRouter == Route

SpecRouter == InitRouter /\ [][NextRouter]_vars

----------------------------------------------------------------------------
(* MockDriver (android.driver.ts:341-579) and the login scenario on         *)
(* SAMPLE_LOGIN_SCREENS.  Strings are opaque here, so String.includes is    *)
(* tabulated over the values the scenario uses.                             *)

SAMPLE_LOGIN_SCREENS == <<"login_screen", "home_screen">>

UsernameId == "com.app:id/username"
PasswordId == "com.app:id/password"
LoginButtonId == "com.app:id/login_button"

\* findByAccessibilityId: id.includes("login") || includes("username") ||
\* includes("password"), case-sensitive
MockFindByAccessibilityId(id) ==
    IF id \in {UsernameId, PasswordId, LoginButtonId, "login"}
    THEN ElementResult(TRUE, 540, 450, NoError)
    ELSE ElementResult(FALSE, Undef, Undef,
                       "Element with accessibilityId '...' not found")

\* findByResourceId: resourceMap
MockFindByResourceId(id) ==
    CASE id = UsernameId -> ElementResult(TRUE, 540, 450, NoError)
      [] id = PasswordId -> ElementResult(TRUE, 540, 600, NoError)
      [] id = LoginButtonId -> ElementResult(TRUE, 540, 800, NoError)
      [] id = "com.app:id/welcome" -> ElementResult(TRUE, 540, 250, NoError)
      [] id = "com.app:id/logout_button" -> ElementResult(TRUE, 540, 450, NoError)
      [] OTHER -> ElementResult(FALSE, Undef, Undef,
                                "Element with resourceId '...' not found")

\* findByText(text, exact = false): the first key of textMap ("Login",
\* "Logout", "Welcome, User!") whose lower case includes text's lower case
MockFindByText(text) ==
    CASE text \in {"Login", "login"} -> ElementResult(TRUE, 540, 800, NoError)
      [] text \in {"Logout", "logout"} -> ElementResult(TRUE, 540, 450, NoError)
      [] text \in {"Welcome, User!", "User", "user"} ->
            ElementResult(TRUE, 540, 250, NoError)
      [] OTHER -> ElementResult(FALSE, Undef, Undef,
                                "Element with text '...' not found")

\* what the mock answers to the lookup trySelector makes for a locator
MockFind(locator) ==
    CASE locator.type = "accessibilityId" -> MockFindByAccessibilityId(locator.value)
      [] locator.type = "resourceId" -> MockFindByResourceId(locator.value)
      [] locator.type = "text" -> MockFindByText(locator.value)
      [] OTHER -> Raised

\* advanceScreen
AdvanceScreen(m) ==
    IF m.currentScreenIndex < Len(SAMPLE_LOGIN_SCREENS) - 1
    THEN [m EXCEPT !.currentScreenIndex = @ + 1]
    ELSE m

\* tap, swipe: the screen advances after a tap and after a swipe up or down
MockCall(m, call) ==
    CASE call.op = "tap" -> AdvanceScreen(m)
      [] call.op = "swipe" /\ call.direction \in {"up", "down"} -> AdvanceScreen(m)
      [] OTHER -> m

RECURSIVE MockAfter(_, _)
\* the mock after the driver calls of one executor run, in order
MockAfter(m, calls) ==
    IF calls = <<>> THEN m
    ELSE MockAfter(MockCall(m, Head(calls)), Tail(calls))

\* a connected MockDriver during one run of the executor on action a: its
\* calls never raise; the Ollama vision fallback answers a pair or null
MockEnvs(a) ==
    LET locates == a.action \in {"click", "type"} /\ HasSelectorHint(a)
    IN  [drv : IF locates THEN {MockFind(SelectorToLocator(a.selector))}
               ELSE {Raised},
         shot : {[raised |-> FALSE, value |-> "png"]},
         vis : IF locates
               THEN {[raised |-> FALSE, value |-> NoCoord],
                     [raised |-> FALSE, value |-> <<10, 20>>]}
               ELSE {Raised},
         tap : {FALSE}, typ : {FALSE}, swipe : {FALSE}, fb : {FALSE}]

\* executor.ts:42-192 on the MockDriver
MockExecutor ==
    /\ ExecutorOn(MockEnvs(state.lastAction), 0)
    /\ mock' = MockAfter(mock, trace')

Hint(type, value) == [type |-> type, value |-> value]

Tap(x, y, selector) == Action("click", x, y, NoText, NoDirection, Undef, selector)
Type(text, selector) == Action("type", Undef, Undef, text, NoDirection, Undef, selector)

\* The scripted reasoning service: the n-th answer is one of the forms the
\* n-th step of the script can take as a ReasonerOutput.
Script ==
    << {Tap(540, 450, NoSelector),
        Tap(Undef, Undef, Hint("resourceId", UsernameId)),
        Tap(540, 450, Hint("text", "Username")),
        Tap(Undef, Undef, Hint("text", "Username"))},
       {Type("testuser", NoSelector),
        Type("testuser", Hint("resourceId", UsernameId))},
       {Tap(540, 600, NoSelector),
        Tap(540, 600, Hint("resourceId", PasswordId)),
        Tap(Undef, Undef, Hint("accessibilityId", "Password input"))},
       {Type("secret123", NoSelector),
        Type("secret123", Hint("text", "Password"))},
       {Tap(540, 800, NoSelector),
        Tap(Undef, Undef, Hint("text", "Login")),
        Tap(540, 800, Hint("accessibilityId", "login"))},
       {Plain("done")} >>

\* the answers left for the n-th call; none when the script is exhausted
ScriptAt(n) == IF n \in DOMAIN Script THEN Script[n] ELSE {}

ScenarioObserver == Observer(RecursionLimit, 0)
ScenarioReasoner == Reasoner(ScriptAt(observerRuns), 0)

\* runAutomation(goal, {driverType: "mock"}) up to the first node: the
\* driver is connected, the graph has the Ollama vision fallback
InitScenario ==
    /\ healingLog = <<>>
    /\ visionFallback = "ollama"
    /\ lastOp = "runGraph"
    /\ ret = Null
    /\ trace = <<>>
    /\ state = InitialState
    /\ pc = "observer"
    /\ steps = 0
    /\ observerRuns = 0
    /\ captureUp = TRUE
    /\ faults = 0
    /\ mock = [NewMockDriver EXCEPT !.connected = TRUE]

NextScenario ==
    \/ ScenarioObserver
    \/ ScenarioReasoner
    \/ MockExecutor
    \/ Route
    \/ RunAutomationEnd

\* the runtime keeps running the graph while a node is due
SpecScenario == InitScenario /\ [][NextScenario]_vars /\ WF_vars(NextScenario)

----------------------------------------------------------------------------
(* parseReasonerResponse (reasoner.ts) and ReasonerOutputSchema (types.ts). *)
(* A response text is kept by its structure: whether it holds a ``` fence,  *)
(* whether prose surrounds the payload, and the payload.  A JSON value is   *)
(* tagged with its type.                                                    *)

Absent == [t |-> "absent"]
JNum(n) == [t |-> "number", n |-> n]
JStr(str) == [t |-> "string", s |-> str]
JObj(fields) == [t |-> "object", o |-> fields]

JParams(x, y, text, direction, selector) ==
    JObj([x |-> x, y |-> y, text |-> text, direction |-> direction,
          duration |-> Absent, selector |-> selector])

JSelector(type, value) ==
    JObj([type |-> type, value |-> value, x |-> Absent, y |-> Absent])

\* the params values the service may send
ParamForms ==
    { Absent,
      JParams(Absent, Absent, Absent, Absent, Absent),
      JParams(JNum(4), JNum(6), Absent, Absent, Absent),
      JParams(JStr("4"), JNum(6), Absent, Absent, Absent),
      JParams(Absent, Absent, JStr("abc"), Absent, Absent),
      JParams(Absent, Absent, JNum(5), Absent, Absent),
      JParams(Absent, Absent, Absent, JStr("up"), Absent),
      JParams(Absent, Absent, Absent, JStr("diagonal"), Absent),
      JParams(JNum(4), JNum(6), Absent, Absent, JSelector(JStr("text"), JStr("v"))),
      JParams(Absent, Absent, Absent, Absent, JSelector(JStr("css"), JStr("v"))),
      JStr("none") }

\* the JSON objects the service may send
JsonObjects ==
    { JObj([thought |-> th, action |-> ac, params |-> pa, targetElement |-> te]) :
        th \in {Absent, JStr("t"), JNum(1)},
        ac \in {Absent, JStr("click"), JStr("type"), JStr("done"), JStr("tap"), JNum(1)},
        pa \in ParamForms,
        te \in {Absent, JStr("Login")} }

\* payloads: words without braces, braces around invalid JSON, a JSON value
Payloads ==
    {[syntax |-> "words"], [syntax |-> "broken"]}
        \cup [syntax : {"json"}, value : {JNum(42), JStr("done")} \cup JsonObjects]

Responses == [fenced : BOOLEAN, prose : BOOLEAN, payload : Payloads]

HasBraces(payload) ==
    payload.syntax = "broken" \/ (payload.syntax = "json" /\ payload.value.t = "object")

\* reasoner.ts:320-331: the text handed to JSON.parse: the fence's content,
\* else the span from the first { to the last }, else the whole text
ExtractJson(resp) ==
    IF resp.fenced THEN [payload |-> resp.payload, prose |-> FALSE]
    ELSE IF HasBraces(resp.payload) THEN [payload |-> resp.payload, prose |-> FALSE]
    ELSE [payload |-> resp.payload, prose |-> resp.prose]

\* JSON.parse: a SyntaxError unless the text is exactly one JSON value
JsonParse(jsonStr) ==
    IF jsonStr.prose \/ jsonStr.payload.syntax # "json"
    THEN [ok |-> FALSE, error |-> [name |-> "SyntaxError", text |-> NoText]]
    ELSE [ok |-> TRUE, value |-> jsonStr.payload.value]

MobileActions == {"click", "type", "swipe", "scroll", "wait", "done"}
SwipeDirections == {"up", "down", "left", "right"}
SelectorTypes == {"accessibilityId", "resourceId", "text", "xpath", "coordinates"}

Optional(v, type) == v = Absent \/ v.t = type
OptionalEnum(v, values) == v = Absent \/ (v.t = "string" /\ v.s \in values)

\* types.ts:52-57
ValidSelector(v) ==
    /\ v.t = "object"
    /\ v.o.type.t = "string" /\ v.o.type.s \in SelectorTypes
    /\ Optional(v.o.value, "string")
    /\ Optional(v.o.x, "number")
    /\ Optional(v.o.y, "number")

\* types.ts:63-72
ValidParams(v) ==
    /\ v.t = "object"
    /\ Optional(v.o.x, "number")
    /\ Optional(v.o.y, "number")
    /\ Optional(v.o.text, "string")
    /\ OptionalEnum(v.o.direction, SwipeDirections)
    /\ Optional(v.o.duration, "number")
    /\ (v.o.selector = Absent \/ ValidSelector(v.o.selector))

\* types.ts:60-74
ValidOutput(v) ==
    /\ v.t = "object"
    /\ v.o.thought.t = "string"
    /\ v.o.action.t = "string" /\ v.o.action.s \in MobileActions
    /\ (v.o.params = Absent \/ ValidParams(v.o.params))
    /\ Optional(v.o.targetElement, "string")

NumberOr(v, default) == IF v = Absent THEN default ELSE v.n
StringOr(v, default) == IF v = Absent THEN default ELSE v.s

SelectorOf(v) ==
    IF v = Absent THEN NoSelector
    ELSE [type |-> v.o.type.s, value |-> StringOr(v.o.value, NoText)]

\* the params of the ReasonerOutput zod builds from valid params
ParamsOf(kind, params) ==
    Action(kind, NumberOr(params.x, Undef), NumberOr(params.y, Undef),
           StringOr(params.text, NoText), StringOr(params.direction, NoDirection),
           NumberOr(params.duration, Undef), SelectorOf(params.selector))

\* the ReasonerOutput zod builds from a valid value: params defaults to {},
\* targetElement to "unknown"
OutputOf(v) ==
    IF v.o.params = Absent
    THEN Plain(v.o.action.s)
    ELSE ParamsOf(v.o.action.s, v.o.params.o)

\* ReasonerOutputSchema.parse: a ZodError listing the issues, or the output
SchemaParse(v) ==
    IF ValidOutput(v)
    THEN [ok |-> TRUE, action |-> OutputOf(v)]
    ELSE [ok |-> FALSE, error |-> [name |-> "ZodError", text |-> NoText]]

\* what follows JSON.parse
ParseParsed(parsed) == IF parsed.ok THEN SchemaParse(parsed.value) ELSE parsed

\* reasoner.ts:318-335
ParseReasonerResponse(resp) == ParseParsed(JsonParse(ExtractJson(resp)))

\* reasoner.ts:424-447: the Reasoner once the service has answered resp
ReasonOn(resp) ==
    /\ NodeReady("reasoner")
    /\ \E r \in {ParseReasonerResponse(resp)} :
          /\ state' = Merge(state, ReasonerPatch(state, r))
          /\ ret' = [outcome |-> IF r.ok THEN "ok" ELSE "failed",
                     response |-> resp, parse |-> r]
    /\ steps' = steps + 1
    /\ pc' = "executor"
    /\ lastOp' = "reasoner"
    /\ trace' = <<Call("fetch")>>
    /\ UNCHANGED <<healingLog, visionFallback, observerRuns, captureUp, faults, mock>>

ReasonOnAny == \E resp \in Responses : ReasonOn(resp)

\* the Reasoner is due, with or without an action left by an earlier cycle
InitParser ==
    /\ healingLog = <<>>
    /\ visionFallback = NoFn
    /\ lastOp = "observer"
    /\ ret = [outcome |-> "ok"]
    /\ trace = <<>>
    /\ state \in {InitialState, [InitialState EXCEPT !.lastAction = Plain("wait")]}
    /\ pc = "reasoner"
    /\ steps = 1
    /\ observerRuns = 1
    /\ captureUp = TRUE
    /\ faults = 0
    /\ mock = NewMockDriver

NextParser == ReasonOnAny

SpecParser == InitParser /\ [][NextParser]_vars

\* ------------------------------------------------------------------
\* Tree Pruner (src/utils/xml-parser.ts)
\*
\* A string is a sequence of one-character strings; a bounds attribute is
\* a sequence of tokens, a run of digits being one token.  An attribute
\* value is Absent or JStr(characters); displayed, clickable, enabled and
\* class are plain strings, NoText when the attribute is missing.
\* ------------------------------------------------------------------
MAX_TEXT_LENGTH == 50

\* coordinates 0..MaxCoord, texts up to MAX_TEXT_LENGTH + MaxOver characters
MaxCoord == 2
MaxOver == 2

Punct(c) == [t |-> "punct", c |-> c]
Digits(n) == [t |-> "digits", n |-> n]

IsPunct(tok, c) == tok.t = "punct" /\ tok.c = c
IsDigits(tok) == tok.t = "digits"

\* /\[(\d+),(\d+)\]\[(\d+),(\d+)\]/ matched at token k of str
BOUNDS_REGEX(str, k) ==
    /\ k + 9 <= Len(str)
    /\ IsPunct(str[k], "[")     /\ IsDigits(str[k + 1])
    /\ IsPunct(str[k + 2], ",") /\ IsDigits(str[k + 3])
    /\ IsPunct(str[k + 4], "]")
    /\ IsPunct(str[k + 5], "[") /\ IsDigits(str[k + 6])
    /\ IsPunct(str[k + 7], ",") /\ IsDigits(str[k + 8])
    /\ IsPunct(str[k + 9], "]")

\* Math.round(sum / 2) for a sum that is not negative
RoundHalf(sum) == (sum + 1) \div 2

Bounds(x1, y1, x2, y2) ==
    [x1 |-> x1, y1 |-> y1, x2 |-> x2, y2 |-> y2,
     centerX |-> RoundHalf(x1 + x2), centerY |-> RoundHalf(y1 + y2)]

BoundsAt(str, k) ==
    Bounds(str[k + 1].n, str[k + 3].n, str[k + 6].n, str[k + 8].n)

\* String.prototype.match without the g flag: the leftmost match
ParseBounds(boundsStr) ==
    IF \E k \in 1..Len(boundsStr) : BOUNDS_REGEX(boundsStr, k)
    THEN BoundsAt(boundsStr,
                  CHOOSE k \in 1..Len(boundsStr) :
                     /\ BOUNDS_REGEX(boundsStr, k)
                     /\ \A j \in 1..(k - 1) : ~BOUNDS_REGEX(boundsStr, j))
    ELSE Null

RECURSIVE TrimStart(_)
TrimStart(s) ==
    IF s # <<>> /\ Head(s) = " " THEN TrimStart(Tail(s)) ELSE s

RECURSIVE TrimEnd(_)
TrimEnd(s) ==
    IF s # <<>> /\ s[Len(s)] = " "
    THEN TrimEnd(SubSeq(s, 1, Len(s) - 1))
    ELSE s

Trim(s) == TrimEnd(TrimStart(s))

Ellipsis == <<".", ".", ".">>

\* a value that JavaScript takes as true: present and not the empty string
Truthy(v) == v # Absent /\ v.s # <<>>

TruncateTrimmed(trimmed) ==
    IF Len(trimmed) = 0 THEN Null
    ELSE IF Len(trimmed) <= MAX_TEXT_LENGTH THEN JStr(trimmed)
    ELSE JStr(SubSeq(trimmed, 1, MAX_TEXT_LENGTH) \o Ellipsis)

TruncateText(text) ==
    IF ~Truthy(text) THEN Null ELSE TruncateTrimmed(Trim(text.s))

\* mutant of HasIdentifiableContent: the description does not count
HasIdentifiableContentNoDesc(attrs) ==
    Truthy(attrs.resource_id) \/ Truthy(attrs.text)

HasIdentifiableContent(attrs) ==
    \/ Truthy(attrs.resource_id)
    \/ Truthy(attrs.text)
    \/ Truthy(attrs.content_desc)

PositiveSize(bounds) ==
    ~(bounds.x2 - bounds.x1 <= 0 \/ bounds.y2 - bounds.y1 <= 0)

\* mutant of IsVisible: the size of the element is not looked at
IsVisibleAnySize(attrs) ==
    /\ attrs.displayed # "false"
    /\ ParseBounds(IF Truthy(attrs.bounds) THEN attrs.bounds.s ELSE <<>>) # Null

IsVisible(attrs) ==
    /\ attrs.displayed # "false"
    /\ \E bounds \in {ParseBounds(IF Truthy(attrs.bounds)
                                  THEN attrs.bounds.s ELSE <<>>)} :
          bounds # Null /\ PositiveSize(bounds)

ClassName(attrs) ==
    IF attrs.class \in {NoText, ""} THEN "unknown" ELSE attrs.class

PrunedElement(attrs, bounds) ==
    [resourceId  |-> IF Truthy(attrs.resource_id)
                     THEN attrs.resource_id ELSE Null,
     text        |-> TruncateText(attrs.text),
     contentDesc |-> TruncateText(attrs.content_desc),
     className   |-> ClassName(attrs),
     bounds      |-> bounds,
     clickable   |-> attrs.clickable = "true",
     enabled     |-> attrs.enabled # "false"]

\* the elements that one node adds, before its children are visited
OwnElements(attrs) ==
    IF /\ Truthy(attrs.bounds)
       /\ IsVisible(attrs)
       /\ ParseBounds(attrs.bounds.s) # Null
       /\ (HasIdentifiableContent(attrs) \/ attrs.clickable = "true")
    THEN <<PrunedElement(attrs, ParseBounds(attrs.bounds.s))>>
    ELSE <<>>

RECURSIVE ExtractElements(_)
ExtractElements(nodes) ==
    IF nodes = <<>> THEN <<>>
    ELSE OwnElements(Head(nodes).attrs)
            \o ExtractElements(Head(nodes).children)
            \o ExtractElements(Tail(nodes))

\* trimValues: true, on a text and on a bounds string
TrimValue(v) == IF v = Absent THEN Absent ELSE JStr(Trim(v.s))

RECURSIVE TrimTokens(_)
TrimTokens(str) ==
    IF str # <<>> /\ Head(str) = Punct(" ") THEN TrimTokens(Tail(str))
    ELSE IF str # <<>> /\ str[Len(str)] = Punct(" ")
         THEN TrimTokens(SubSeq(str, 1, Len(str) - 1))
         ELSE str

TrimBounds(v) == IF v = Absent THEN Absent ELSE JStr(TrimTokens(v.s))

TrimValues(attrs) ==
    [attrs EXCEPT !.text = TrimValue(@), !.content_desc = TrimValue(@),
                  !.resource_id = TrimValue(@), !.bounds = TrimBounds(@)]

\* new XMLParser({..., trimValues: true}).parse: the nodes in document order,
\* their attribute values without the surrounding whitespace
RECURSIVE XMLParser(_)
XMLParser(nodes) ==
    IF nodes = <<>> THEN <<>>
    ELSE <<[attrs    |-> TrimValues(Head(nodes).attrs),
            children |-> XMLParser(Head(nodes).children)]>>
            \o XMLParser(Tail(nodes))

\* a page source that the XML parser rejects gives no elements
ParseAndroidXml(xml) ==
    IF xml.wellFormed THEN ExtractElements(XMLParser(xml.nodes)) ELSE <<>>

\* --- the page sources the pruner is run on ---
Pad(k) == [i \in 1..k |-> " "]
Letters == <<"a", "b", "c", "d", "e", "f", "g", "h", "i", "j">>
Chars(n) == [i \in 1..n |-> Letters[(i % Len(Letters)) + 1]]

BoundsString(x1, y1, x2, y2) ==
    << Punct("["), Digits(x1), Punct(","), Digits(y1), Punct("]"),
       Punct("["), Digits(x2), Punct(","), Digits(y2), Punct("]") >>

NegativeBoundsString ==
    << Punct("["), Punct("-"), Digits(1), Punct(","), Digits(0), Punct("]"),
       Punct("["), Digits(MaxCoord), Punct(","), Digits(MaxCoord), Punct("]") >>

BoundsForms ==
    {Absent, JStr(<<>>), JStr(NegativeBoundsString),
     JStr(<<Punct(" ")>> \o BoundsString(0, 0, MaxCoord, MaxCoord))}
    \cup {JStr(BoundsString(1, 1, x2, y2)) : x2 \in 0..MaxCoord, y2 \in 0..MaxCoord}

TextLengths ==
    {1, MAX_TEXT_LENGTH}
    \cup (MAX_TEXT_LENGTH + 1)..(MAX_TEXT_LENGTH + MaxOver)

TextForms ==
    {Absent, JStr(Pad(1))}
    \cup {JStr(Pad(p) \o Chars(n) \o Pad(p)) : p \in {0, 1}, n \in TextLengths}

DescForms ==
    {Absent, JStr(Chars(1)), JStr(Chars(MAX_TEXT_LENGTH + MaxOver))}

Attrs(class, bounds, displayed, text, desc, id, clickable) ==
    [class |-> class, bounds |-> bounds, displayed |-> displayed,
     text |-> text, content_desc |-> desc, resource_id |-> id,
     clickable |-> clickable, enabled |-> NoText]

XmlNode(attrs, children) == [attrs |-> attrs, children |-> children]

FieldAttrs ==
    {Attrs("android.widget.EditText", b, d, t, c, id, k) :
        b \in BoundsForms, d \in {NoText, "true", "false"},
        t \in TextForms, c \in DescForms,
        id \in {Absent, JStr(Chars(2))}, k \in {"true", "false"}}

ButtonAttrs ==
    {Attrs("android.widget.Button", b, d, Absent, JStr(Chars(2)), Absent, "true") :
        b \in {JStr(BoundsString(1, 1, 1, MaxCoord)),
               JStr(BoundsString(1, 1, MaxCoord, MaxCoord))},
        d \in {"true", "false"}}

LayoutAttrs ==
    {Attrs("android.widget.FrameLayout", b, d, Absent, Absent, id, "false") :
        b \in {Absent, JStr(BoundsString(0, 0, MaxCoord, MaxCoord))},
        d \in {NoText, "false"},
        id \in {Absent, JStr(Chars(2))}}

Hierarchies ==
    {[wellFormed |-> FALSE, nodes |-> <<>>]}
    \cup {[wellFormed |-> TRUE,
           nodes |-> <<XmlNode(l, <<XmlNode(f, <<>>)>> \o rest)>>] :
             l \in LayoutAttrs, f \in FieldAttrs,
             rest \in {<<>>} \cup {<<XmlNode(b, <<>>)>> : b \in ButtonAttrs}}

\* the Observer's call of parseAndroidXml on the page source it was given
ParsePageSource ==
    /\ lastOp = "getPageSource"
    /\ ret' = [xml |-> ret.xml, elements |-> ParseAndroidXml(ret.xml)]
    /\ lastOp' = "parseAndroidXml"
    /\ trace' = <<Call("parseAndroidXml")>>
    /\ UNCHANGED <<healingLog, visionFallback>>
    /\ UNCHANGED loopVars

InitPruner ==
    /\ healingLog = <<>>
    /\ visionFallback = NoFn
    /\ lastOp = "getPageSource"
    /\ ret \in {[xml |-> x] : x \in Hierarchies}
    /\ trace = <<Call("getPageSource")>>
    /\ state = InitialState
    /\ pc = "observer"
    /\ steps = 0
    /\ observerRuns = 0
    /\ captureUp = TRUE
    /\ faults = 0
    /\ mock = NewMockDriver

NextPruner == ParsePageSource

SpecPruner == InitPruner /\ [][NextPruner]_vars

\* --- parseBounds on its own: the bounds strings it is given ---
WellFormedBounds ==
    {BoundsString(x1, y1, x2, y2) :
        x1 \in 0..MaxCoord, y1 \in 0..MaxCoord,
        x2 \in 0..MaxCoord, y2 \in 0..MaxCoord}

\* strings that are not of the form "[x1,y1][x2,y2]"
MalformedBounds ==
    {<<>>, NegativeBoundsString,
     SubSeq(BoundsString(0, 0, 1, 1), 1, 5),
     SubSeq(BoundsString(0, 0, 1, 1), 1, 9),
     <<Punct("x")>>}
    \cup {<<Punct(c)>> \o BoundsString(0, 0, x2, y2) :
             c \in {" ", "x"}, x2 \in 1..MaxCoord, y2 \in 1..MaxCoord}
    \cup {BoundsString(0, 0, x2, y2) \o <<Punct(c)>> :
             c \in {" ", "x"}, x2 \in 1..MaxCoord, y2 \in 1..MaxCoord}
    \cup {BoundsString(0, 0, 1, 1) \o BoundsString(0, 0, x2, y2) :
             x2 \in 1..MaxCoord, y2 \in 1..MaxCoord}

ParseBoundsCall ==
    /\ lastOp = "attrs"
    /\ ret' = [boundsStr |-> ret.boundsStr, bounds |-> ParseBounds(ret.boundsStr)]
    /\ lastOp' = "parseBounds"
    /\ trace' = <<Call("parseBounds")>>
    /\ UNCHANGED <<healingLog, visionFallback>>
    /\ UNCHANGED loopVars

InitBounds ==
    /\ healingLog = <<>>
    /\ visionFallback = NoFn
    /\ lastOp = "attrs"
    /\ ret \in {[boundsStr |-> s] : s \in WellFormedBounds \cup MalformedBounds}
    /\ trace = <<>>
    /\ state = InitialState
    /\ pc = "observer"
    /\ steps = 0
    /\ observerRuns = 0
    /\ captureUp = TRUE
    /\ faults = 0
    /\ mock = NewMockDriver

NextBounds == ParseBoundsCall

SpecBounds == InitBounds /\ [][NextBounds]_vars

\* ------------------------------------------------------------------
\* createOllamaVisionFallback (src/utils/vision-fallback.ts)
\*
\* The reply of the vision service: fetch rejects, or resolves with a
\* status and a body.  The content of a chat message is a sequence of
\* parts: words, or text in braces that is a JSON object, is not JSON, or
\* holds a further pair of braces.
\* ------------------------------------------------------------------
VisionValues == {Absent, JStr("1")} \cup {JNum(n) : n \in 0..MaxCoord}

VisionParts ==
    {[p |-> "words", w |-> w] : w \in {"null", "sorry"}}
    \cup {[p |-> "broken"], [p |-> "nested"]}
    \cup {[p |-> "json", v |-> JObj([x |-> a, y |-> b])] :
             a \in VisionValues, b \in VisionValues}

VisionContents ==
    {[kind |-> "missing"], [kind |-> "number"],
     [kind |-> "text", parts |-> <<>>]}
    \cup {[kind |-> "text", parts |-> <<p>>] : p \in VisionParts}
    \cup {[kind |-> "text", parts |-> <<[p |-> "words", w |-> "sorry"], p>>] :
             p \in VisionParts}
    \cup {[kind |-> "text", parts |-> <<p, [p |-> "json", v |-> JObj([x |-> JNum(0), y |-> JNum(0)])]>>] :
             p \in VisionParts}

VisionReplies ==
    {[fetch |-> "rejects"], [fetch |-> "resolves", ok |-> FALSE]}
    \cup {[fetch |-> "resolves", ok |-> TRUE, json |-> FALSE]}
    \cup {[fetch |-> "resolves", ok |-> TRUE, json |-> TRUE, content |-> c] :
             c \in VisionContents}

InBraces(part) == part.p \in {"json", "broken", "nested"}

\* content.match(/\{[\s\S]*?\}/): the first text in braces, up to the first "}"
JsonMatch(parts) ==
    IF \E k \in DOMAIN parts : InBraces(parts[k])
    THEN parts[CHOOSE k \in DOMAIN parts :
                  /\ InBraces(parts[k])
                  /\ \A j \in 1..(k - 1) : ~InBraces(parts[j])]
    ELSE Null

\* JSON.parse(jsonMatch[0]) and the test of x and y
ParsedCoordinates(match) ==
    IF match.p # "json" THEN Raised
    ELSE IF match.v.o.x.t = "number" /\ match.v.o.y.t = "number"
         THEN [x |-> match.v.o.x.n, y |-> match.v.o.y.n]
         ELSE Null

\* the body of the try block
VisionTry(reply) ==
    IF reply.fetch = "rejects" THEN Raised
    ELSE IF ~reply.ok THEN Null
    ELSE IF ~reply.json THEN Raised
    ELSE IF reply.content.kind = "missing" THEN Null
    ELSE IF reply.content.kind = "number" THEN Raised
    ELSE IF reply.content.parts = <<>> THEN Null
    ELSE IF JsonMatch(reply.content.parts) = Null THEN Null
    ELSE ParsedCoordinates(JsonMatch(reply.content.parts))

\* mutant of OllamaVisionFallback: no catch block
OllamaVisionFallbackNoCatch(reply) == VisionTry(reply)

OllamaVisionFallback(reply) ==
    IF VisionTry(reply) = Raised THEN Null ELSE VisionTry(reply)

VisionFallbackCall ==
    /\ lastOp = "new"
    /\ ret' = [reply |-> ret.reply, result |-> OllamaVisionFallback(ret.reply)]
    /\ lastOp' = "visionFallback"
    /\ trace' = <<Call("fetch")>>
    /\ UNCHANGED <<healingLog, visionFallback>>
    /\ UNCHANGED loopVars

InitVision ==
    /\ healingLog = <<>>
    /\ visionFallback = NoFn
    /\ lastOp = "new"
    /\ ret \in {[reply |-> r] : r \in VisionReplies}
    /\ trace = <<>>
    /\ state = InitialState
    /\ pc = "observer"
    /\ steps = 0
    /\ observerRuns = 0
    /\ captureUp = TRUE
    /\ faults = 0
    /\ mock = NewMockDriver

NextVision == VisionFallbackCall

SpecVision == InitVision /\ [][NextVision]_vars

----------------------------------------------------------------------------
(* The drivers' lookups, and locate over them *)

\* what the device answers a lookup with: whether the session is open, what
\* element.isExisting() gives, and the element's location and size (getSize
\* rejecting stands for any call inside the try block that rejects after
\* the element was seen)
FindEnvs ==
    [connected : BOOLEAN, isExisting : {"true", "false", "rejects"},
     location : {<<0, 0>>, <<1, 2>>}, size : {<<1, 3>>, <<2, 2>>},
     getSize : {"resolves", "rejects"}]

FindError == "Error finding text 'v': stale element"

AndroidFindByKeepingLocation(env) ==
    IF ~env.connected THEN Raised
    ELSE IF env.isExisting = "rejects" THEN ElementResult(FALSE, Undef, Undef, FindError)
    ELSE IF env.isExisting = "false"
    THEN ElementResult(FALSE, Undef, Undef, DriverNotFound)
    ELSE IF env.getSize = "rejects"
    THEN ElementResult(FALSE, env.location[1], env.location[2], FindError)
    ELSE ElementResult(TRUE, RoundHalf(2 * env.location[1] + env.size[1]),
                       RoundHalf(2 * env.location[2] + env.size[2]), NoError)

\* AndroidDriver.findByAccessibilityId, findByResourceId, findByText
AndroidFindBy(env) ==
    IF ~env.connected THEN Raised
    ELSE IF env.isExisting = "rejects" \/ (env.isExisting = "true" /\ env.getSize = "rejects")
    THEN ElementResult(FALSE, Undef, Undef, FindError)
    ELSE IF env.isExisting = "true"
    THEN ElementResult(TRUE, RoundHalf(2 * env.location[1] + env.size[1]),
                       RoundHalf(2 * env.location[2] + env.size[2]), NoError)
    ELSE ElementResult(FALSE, Undef, Undef, DriverNotFound)

\* MockDriver.findByAccessibilityId, findByResourceId, findByText: the
\* element is one of those the mock knows, or it is not
MockFindBy(known) ==
    IF known THEN ElementResult(TRUE, 540, 450, NoError)
    ELSE ElementResult(FALSE, Undef, Undef, DriverNotFound)

FoundLookups ==
    {AndroidFindBy(env) : env \in FindEnvs} \cup {MockFindBy(known) : known \in BOOLEAN}

LocateByDriver ==
    LocateCall(Locators, FoundLookups, Screenshots, VisionAnswers, MaxLog)

NextFind ==
    \/ LocateByDriver
    \/ SetVisionFallback

SpecFind == InitLocator /\ [][NextFind]_vars

----------------------------------------------------------------------------
(* HealingLogger.  state is the logger's summary object, whose events      *)
(* field is a reference to the one array the constructor created;          *)
(* healingLog is that array; ret is the object getSummary returned.        *)

MaxEvents == 3

EventsArray == [ref |-> "events"]

\* vision-fallback.ts:139-149
NewSummary ==
    [totalLocateAttempts |-> 0, selectorSuccesses |-> 0, visionHealings |-> 0,
     failures |-> 0, events |-> EventsArray]

HealingEventLog(method) == [method |-> method]

Counted(summary, method) ==
    CASE method = "selector" ->
            [summary EXCEPT !.selectorSuccesses = @ + 1]
      [] method = "vision" -> [summary EXCEPT !.visionHealings = @ + 1]
      [] method = "failed" -> [summary EXCEPT !.failures = @ + 1]

\* vision-fallback.ts:151-166
LogEvent ==
    /\ lastOp \in {"new HealingLogger", "logEvent", "getSummary"}
    /\ Len(healingLog) < MaxEvents
    /\ \E method \in {"selector", "vision", "failed"} :
          /\ healingLog' = Append(healingLog, HealingEventLog(method))
          /\ state' = Counted([state EXCEPT !.totalLocateAttempts = @ + 1], method)
    /\ lastOp' = "logEvent"
    /\ UNCHANGED <<visionFallback, ret, trace, pc, steps, observerRuns,
                   captureUp, faults, mock>>

\* vision-fallback.ts:168-173.  {...this.summary, endTime: new Date()}: the
\* fields of the summary as they are, the reference in events among them
GetSummaryCall ==
    /\ lastOp \in {"new HealingLogger", "logEvent", "getSummary"}
    /\ ret' = state
    /\ lastOp' = "getSummary"
    /\ UNCHANGED <<healingLog, visionFallback, trace, loopVars>>

\* what a holder of a summary reads in it: the counts, and the events in the
\* array its events field refers to
Read(summary, array) == [summary EXCEPT !.events = array]

InitLogger ==
    /\ healingLog = <<>>
    /\ state = NewSummary
    /\ lastOp = "new HealingLogger"
    /\ ret = Null
    /\ visionFallback = NoFn
    /\ trace = <<>>
    /\ pc = "idle"
    /\ steps = 0
    /\ observerRuns = 0
    /\ captureUp = TRUE
    /\ faults = 0
    /\ mock = NewMockDriver

NextLogger ==
    \/ LogEvent
    \/ GetSummaryCall

SpecLogger == InitLogger /\ [][NextLogger]_vars

----------------------------------------------------------------------------
(* Properties of HybridLocator.locate and getHealingStats *)

\* the structural lookup returned, and without usable coordinates
SelectorFailed(r) ==
    /\ ~r.sel.raised
    /\ ~(r.sel.found /\ r.sel.x # Undef /\ r.sel.y # Undef)

\* the driver's own lookup returned found with both coordinates
DriverResolved(r) ==
    /\ r.locator.type \in DriverLocatorTypes
    /\ ~r.sel.raised
    /\ r.sel.found /\ r.sel.x # Undef /\ r.sel.y # Undef

\* the fallback was called and returned a coordinate pair
VisionAnswered(r) ==
    /\ r.vis # NotCalled
    /\ r.vis # Raised
    /\ r.vis.value # NoCoord

LastEvent == healingLog[Len(healingLog)]

\* C1: every call to locate leaves the healing log exactly one event longer,
\* whatever the locator and whether the structural lookup, the screenshot
\* capture or the fallback returns a value, returns absence or raises.
C1_LogGrowsByOne ==
    [][lastOp' = "locate" => Len(healingLog') = Len(healingLog) + 1]_vars

\* C2: when the driver resolves the selector (found with both coordinates),
\* locate returns found with the driver's coordinates, method "selector",
\* healingTriggered false, and appends one success event with method
\* "selector" and healingTriggered false.
C2_SelectorSuccess ==
    [][(lastOp' = "locate" /\ DriverResolved(ret')) =>
         /\ ~ret'.raised
         /\ ret'.result = [found |-> TRUE, x |-> ret'.sel.x, y |-> ret'.sel.y,
                           method |-> "selector", healingTriggered |-> FALSE,
                           error |-> NoError]
         /\ Len(healingLog') = Len(healingLog) + 1
         /\ SubSeq(healingLog', 1, Len(healingLog)) = healingLog
         /\ LET e == healingLog'[Len(healingLog')]
            IN  /\ e.success
                /\ e.method = "selector"
                /\ ~e.healingTriggered
                /\ e.coordinates = <<ret'.sel.x, ret'.sel.y>>
                /\ e.attemptedLocator = ret'.locator]_vars

C2_Witness ==
    /\ lastOp = "locate"
    /\ DriverResolved(ret)
    /\ ret.sel.x = 0
    /\ Len(healingLog) = 2

\* C3: when the selector is not resolved and the configured fallback returns
\* (x, y), locate returns {found, x, y, method "vision", healingTriggered
\* true} and appends one success event with method "vision" and
\* healingTriggered true.
C3_VisionSuccess ==
    [][(lastOp' = "locate" /\ SelectorFailed(ret') /\ visionFallback # NoFn
            /\ VisionAnswered(ret')) =>
         /\ ~ret'.raised
         /\ ret'.result = [found |-> TRUE, x |-> ret'.vis.value[1],
                           y |-> ret'.vis.value[2], method |-> "vision",
                           healingTriggered |-> TRUE, error |-> NoError]
         /\ Len(healingLog') = Len(healingLog) + 1
         /\ SubSeq(healingLog', 1, Len(healingLog)) = healingLog
         /\ LET e == healingLog'[Len(healingLog')]
            IN  /\ e.success
                /\ e.method = "vision"
                /\ e.healingTriggered
                /\ e.coordinates = ret'.vis.value]_vars

C3_Witness ==
    /\ lastOp = "locate"
    /\ SelectorFailed(ret)
    /\ VisionAnswered(ret)
    /\ ret.result.x = 10 /\ ret.result.y = 20
    /\ LastEvent.method = "vision"

\* the fallback gave no coordinates: none configured, the screenshot capture
\* or the fallback raised, or the fallback returned absence
VisionFailed(r, vf) ==
    \/ vf = NoFn
    \/ r.shot = Raised
    \/ r.vis = Raised
    \/ (r.vis # NotCalled /\ r.vis # Raised /\ r.vis.value = NoCoord)

\* C4: when the structural lookup and the fallback both fail, locate returns
\* found=false without coordinates, method "none", healingTriggered = a
\* fallback is configured, error = the lookup's error when present, else the
\* generic message; the event appended is a failure with method "selector".
C4_BothFail ==
    [][(lastOp' = "locate" /\ SelectorFailed(ret')
            /\ VisionFailed(ret', visionFallback)) =>
         /\ ~ret'.raised
         /\ ret'.result = [found |-> FALSE, x |-> Undef, y |-> Undef,
                           method |-> "none",
                           healingTriggered |-> (visionFallback # NoFn),
                           error |-> IF ret'.sel.error # NoError
                                     THEN ret'.sel.error
                                     ELSE "Element not found"]
         /\ Len(healingLog') = Len(healingLog) + 1
         /\ SubSeq(healingLog', 1, Len(healingLog)) = healingLog
         /\ LET e == healingLog'[Len(healingLog')]
            IN  /\ ~e.success
                /\ e.method = "selector"
                /\ e.healingTriggered = (visionFallback # NoFn)]_vars

C4_Witness ==
    /\ lastOp = "locate"
    /\ SelectorFailed(ret)
    /\ visionFallback # NoFn
    /\ ret.vis = Raised
    /\ ~ret.result.found
    /\ ret.result.healingTriggered
    /\ ~LastEvent.success

Count(calls, name) == Cardinality({i \in DOMAIN calls : calls[i].op = name})

\* C5: within a locate call the structural lookup runs first; the screenshot
\* capture and the fallback are invoked at most once each, only after the
\* lookup reported not-found (or found without coordinates), never when the
\* selector succeeded and never when no fallback is configured.
C5_CallOrder ==
    lastOp = "locate" =>
        /\ Len(trace) >= 1 /\ trace[1].op = "trySelector"
        /\ \A i \in DOMAIN trace :
              trace[i].op \in {"findByAccessibilityId", "findByResourceId", "findByText"}
                  => i = 2
        /\ Count(trace, "getScreenshot") <= 1
        /\ Count(trace, "visionFallback") <= 1
        /\ \A i \in DOMAIN trace :
              trace[i].op \in {"getScreenshot", "visionFallback"} =>
                  /\ i > 1
                  /\ \A j \in DOMAIN trace : trace[j].op = "trySelector" => j < i
                  /\ SelectorFailed(ret)
                  /\ visionFallback # NoFn
        /\ \A i \in DOMAIN trace :
              trace[i].op = "visionFallback" =>
                  \E j \in 1..(i - 1) : trace[j].op = "getScreenshot"

C5_Witness ==
    /\ lastOp = "locate"
    /\ trace = <<Call("trySelector"), Call("findByText"), Call("getScreenshot"),
                 Call("visionFallback")>>

CountEvents(log, P(_)) == Cardinality({i \in DOMAIN log : P(log[i])})

\* a log of 7 selector successes, 2 vision successes and 1 failure
SevenTwoOne(log) ==
    /\ Len(log) = 10
    /\ CountEvents(log, LAMBDA e : e.success /\ e.method = "selector") = 7
    /\ CountEvents(log, LAMBDA e : e.success /\ e.method = "vision") = 2
    /\ CountEvents(log, LAMBDA e : ~e.success) = 1

StatsCountFields ==
    {"totalAttempts", "selectorSuccesses", "visionSuccesses", "failures"}

\* C6 as stated: for the 7/2/1 log getHealingStats returns healingRate 0.2
\* and an overall success rate of 0.9.
C6_ReturnsSuccessRate ==
    (lastOp = "getHealingStats" /\ SevenTwoOne(healingLog)) =>
        /\ ret.healingRate = <<1, 5>>
        /\ \E f \in DOMAIN ret \ (StatsCountFields \cup {"healingRate"}) :
              ret[f] = <<9, 10>>

\* C6, amended: getHealingStats is a pure read recomputed from the current
\* log: totalAttempts = log length, the counts of selector successes, vision
\* successes and failures, healingRate = visionSuccesses / totalAttempts (0
\* for the empty log), and nothing else; for the 7/2/1 log healingRate is
\* 0.2 and the counts returned give (selector + vision) / total = 0.9.
C6_StatsPureRead ==
    [][lastOp' = "getHealingStats" =>
         /\ healingLog' = healingLog
         /\ DOMAIN ret' = StatsCountFields \cup {"healingRate"}
         /\ ret'.totalAttempts = Len(healingLog)
         /\ ret'.selectorSuccesses =
               CountEvents(healingLog, LAMBDA e : e.success /\ e.method = "selector")
         /\ ret'.visionSuccesses =
               CountEvents(healingLog, LAMBDA e : e.success /\ e.method = "vision")
         /\ ret'.failures = CountEvents(healingLog, LAMBDA e : ~e.success)
         /\ IF Len(healingLog) = 0
            THEN ret'.healingRate = <<0, 1>>
            ELSE /\ ret'.healingRate[2] > 0
                 /\ ret'.healingRate[1] * Len(healingLog)
                       = ret'.visionSuccesses * ret'.healingRate[2]
         /\ SevenTwoOne(healingLog) =>
               /\ ret'.healingRate = <<1, 5>>
               /\ (ret'.selectorSuccesses + ret'.visionSuccesses) * 10
                     = 9 * ret'.totalAttempts]_vars

C6_Witness ==
    /\ lastOp = "getHealingStats"
    /\ SevenTwoOne(healingLog)
    /\ ret.healingRate = <<1, 5>>

----------------------------------------------------------------------------
(* Properties of the Router and of the loop *)

C8_RetryResetAfterSuccess ==
    (lastOp = "executor" /\ ret.outcome \in {"ok", "done"}) =>
        state.retryCount = 0

\* C9: for a goal that is never satisfied, in every run and under any
\* pattern of Observer, Reasoner and Executor successes and failures, the
\* Observer is executed at most 15 times.
C9_ObserverAtMostFifteen ==
    ~state.isComplete => observerRuns <= 15

C9_Witness ==
    /\ observerRuns = 15
    /\ ~state.isComplete
    /\ state.iteration < 15
    /\ Len(state.errors) > 0
    /\ pc = "thrown"

\* C10 as stated: once retryCount has reached 3, no further action is
\* executed (an Executor that still runs makes no driver call) and no further
\* Observer cycle starts; a run that then ends has outcome "max_retries".
C10_StopsAtThreeRetries ==
    [][state.retryCount >= 3 =>
         /\ lastOp' = "executor" => trace' = <<>>
         /\ observerRuns' = observerRuns
         /\ pc' = "done" => FinalState(state') = "max_retries"]_vars

\* the node that ran last is the Executor after a Reasoner that failed
AfterFailedReasoning == lastOp = "reasoner" /\ ret.outcome = "failed"

\* C11 as stated: when the Reasoner fails, the Executor that follows makes
\* no driver call and appends no history entry, even if an action decided in
\* an earlier cycle is still in the state.
C11_NoActionAfterFailedReasoning ==
    [][(AfterFailedReasoning /\ lastOp' = "executor") =>
         /\ trace' = <<>>
         /\ state'.actionHistory = state.actionHistory]_vars

\* C12 as stated: every run ends by the Router returning "end" and yields a
\* final state: under no pattern of capture, reasoning, location or executor
\* failures, and neither by the retry budget nor the iteration cap, does
\* runGraph raise instead of returning.
C12_NeverThrows ==
    /\ pc # "thrown"
    /\ pc = "done" => (lastOp = "router" /\ ret.route = "end")

\* C13: the outcome of a run is "completed" if isComplete, otherwise
\* "max_retries" if retryCount >= 3, otherwise "failed"; the result's success
\* flag is true exactly when the outcome is "completed".
C13_Outcome ==
    pc = "returned" =>
        /\ ret.finalState = IF state.isComplete THEN "completed"
                            ELSE IF state.retryCount >= 3 THEN "max_retries"
                            ELSE "failed"
        /\ ret.success <=> ret.finalState = "completed"
        /\ ret.finalState = "completed" <=> state.isComplete

C13_Witness ==
    /\ pc = "returned"
    /\ state.retryCount = 3
    /\ ret.finalState = "max_retries"
    /\ ~ret.success

ScenarioEnded ==
    pc \in {"done", "returned"} =>
        /\ state.isComplete
        /\ FinalState(state) = "completed"
        /\ Len(state.actionHistory) = 6
        /\ pc = "returned" => (ret.success /\ ret.finalState = "completed")

\* C14: with the two-screen mock fixture and the reasoning service scripted
\* to answer tap username, type "testuser", tap password, type "secret123",
\* tap login, done, the run ends, and it ends with isComplete true, outcome
\* "completed" and an action history of exactly 6 entries.
C14_LoginScenario ==
    /\ [](pc \notin {"thrown", "rejected"} /\ ScenarioEnded)
    /\ <>(pc = "returned")

C14_Witness ==
    /\ pc = "returned"
    /\ ret.finalState = "completed"
    /\ Len(ret.actionHistory) = 6
    /\ mock.currentScreenIndex = 1
    /\ observerRuns = 6

\* C15: when the Observer's capture fails, exactly one error is appended to
\* the error sequence, the screenshot and the pruned-element list keep the
\* values of the last successful observation, and the loop goes on to
\* Reasoning.
C15_CaptureFailureKeepsLastGood ==
    [][(lastOp' = "observer" /\ ret'.outcome = "failed") =>
         /\ Len(state'.errors) = Len(state.errors) + 1
         /\ SubSeq(state'.errors, 1, Len(state.errors)) = state.errors
         /\ state'.screenshot = state.screenshot
         /\ state'.uiTree = state.uiTree
         /\ pc' = "reasoner"]_vars

C15_Witness ==
    /\ lastOp = "observer"
    /\ ret.outcome = "failed"
    /\ observerRuns = 3
    /\ state.screenshot = 2
    /\ state.uiTree = 2
    /\ Len(state.errors) = 1

\* C16: isComplete is false in every state until a done action is executed;
\* executing done sets isComplete and appends exactly one completion history
\* entry; no other action kind, failure path or stage sets isComplete.
C16_OnlyDoneCompletes ==
    [][/\ (lastOp = "runGraph" => ~state.isComplete)
       /\ (lastOp' = "executor" /\ ret'.action.action = "done") =>
             /\ state'.isComplete
             /\ state'.actionHistory = state.actionHistory \o <<"Goal completed">>
       /\ ~(lastOp' = "executor" /\ ret'.action.action = "done") =>
             state'.isComplete = state.isComplete
       /\ state'.isComplete => (state.isComplete \/ ret'.outcome = "done")]_vars

C16_Witness ==
    /\ lastOp = "executor"
    /\ ret.outcome = "done"
    /\ state.isComplete
    /\ state.actionHistory = <<"Goal completed">>

\* C17 as stated: retryCount increases by exactly one on each action failure,
\* each observation failure and each reasoning failure.
C17_EveryFailureCounts ==
    [][(lastOp' \in {"observer", "reasoner", "executor"} /\ ret'.outcome = "failed")
         => state'.retryCount = state.retryCount + 1]_vars

Stages == {"observer", "reasoner", "executor", "router"}

Terminal == pc \in {"done", "thrown", "returned", "rejected"}

\* C18: the stages run strictly in the order Observing, Reasoning, Executing,
\* Deciding, one at a time; Deciding leads only back to Observing
\* ("continue") or to Terminal ("end"); after Terminal no stage runs and no
\* state field changes.
C18_StageOrder ==
    [][/\ lastOp' = "observer" =>
             (lastOp = "runGraph" \/ (lastOp = "router" /\ ret.route = "continue"))
       /\ lastOp' = "reasoner" => lastOp = "observer"
       /\ lastOp' = "executor" => lastOp = "reasoner"
       /\ lastOp' = "router" => lastOp = "executor"
       /\ lastOp' \in Stages => steps' + OneIf(lastOp' = "router") = steps + 1
       /\ lastOp' = "router" =>
             /\ ret'.route = "continue" => pc' = "observer"
             /\ ret'.route = "end" => Terminal'
             /\ pc' = "observer" \/ Terminal'
       /\ Terminal => (lastOp' \notin Stages /\ state' = state /\ Terminal')]_vars

C18_Witness ==
    /\ pc = "returned"
    /\ observerRuns = 2
    /\ steps = 6
    /\ Len(state.actionHistory) = 2
    /\ state.isComplete

\* the ReasonerOutput schema, on the outputs of the model
SatisfiesSchema(a) ==
    /\ a.action \in MobileActions
    /\ a.x \in Nat \cup {Undef} /\ a.y \in Nat \cup {Undef}
    /\ a.direction \in SwipeDirections \cup {NoDirection}
    /\ a.selector = NoSelector \/ a.selector.type \in SelectorTypes

\* the response carries a valid ReasonerOutput where the parser looks
HoldsValidOutput(resp) ==
    /\ resp.payload.syntax = "json"
    /\ ValidOutput(resp.payload.value)

\* C19 as stated: parseAction either returns an action that satisfies the
\* ReasonerOutput schema or fails with a ParseError carrying the offending
\* text; it never returns a substituted default action; on failure the
\* Reasoner produces no new action.
C19_ParseOrParseError ==
    [][lastOp' = "reasoner" =>
         /\ ret'.parse.ok =>
               /\ SatisfiesSchema(ret'.parse.action)
               /\ HoldsValidOutput(ret'.response)
               /\ ret'.parse.action.action = ret'.response.payload.value.o.action.s
               /\ state'.lastAction = ret'.parse.action
         /\ ~ret'.parse.ok =>
               /\ ret'.parse.error.name = "ParseError"
               /\ ret'.parse.error.text = ret'.response
               /\ state'.lastAction = state.lastAction]_vars

\* every node of a page source, parents before children
RECURSIVE AllNodes(_)
AllNodes(nodes) ==
    IF nodes = <<>> THEN {}
    ELSE {Head(nodes)} \cup AllNodes(Head(nodes).children)
                       \cup AllNodes(Tail(nodes))

\* the nodes an element can come from: the nodes have different classes
SourcesOf(xml, el) ==
    {n \in AllNodes(xml.nodes) : ClassName(n.attrs) = el.className}

\* the text kept is short, or the first MAX_TEXT_LENGTH characters of the
\* node's trimmed text followed by an ellipsis
ShortOrEllipsis(kept, given) ==
    kept # Null =>
       \/ Len(kept.s) <= MAX_TEXT_LENGTH
       \/ /\ given # Absent
          /\ Len(Trim(given.s)) > MAX_TEXT_LENGTH
          /\ kept.s = SubSeq(Trim(given.s), 1, MAX_TEXT_LENGTH) \o Ellipsis

\* C20: for every input hierarchy the Tree Pruner emits no element whose
\* bounds have width <= 0 or height <= 0, no element marked not-displayed,
\* and no text or description longer than 50 characters unless it is the
\* first 50 characters followed by an ellipsis.
C20_PrunedElementsVisibleAndShort ==
    lastOp = "parseAndroidXml" =>
       \A i \in DOMAIN ret.elements :
          /\ ret.elements[i].bounds.x2 - ret.elements[i].bounds.x1 > 0
          /\ ret.elements[i].bounds.y2 - ret.elements[i].bounds.y1 > 0
          /\ \A n \in SourcesOf(ret.xml, ret.elements[i]) :
                /\ n.attrs.displayed # "false"
                /\ ShortOrEllipsis(ret.elements[i].text, n.attrs.text)
                /\ ShortOrEllipsis(ret.elements[i].contentDesc,
                                   n.attrs.content_desc)

\* a hidden layout and a button without width are dropped, and the field
\* between them is emitted with its text and description cut
C20_Witness ==
    /\ lastOp = "parseAndroidXml"
    /\ Len(ret.elements) = 1
    /\ ret.elements[1].text # Null
    /\ Len(ret.elements[1].text.s) = MAX_TEXT_LENGTH + Len(Ellipsis)
    /\ ret.elements[1].contentDesc # Null
    /\ Len(ret.elements[1].contentDesc.s) = MAX_TEXT_LENGTH + Len(Ellipsis)
    /\ \E n \in AllNodes(ret.xml.nodes) :
          /\ n.attrs.displayed = "false"
          /\ Truthy(n.attrs.resource_id)
          /\ n.attrs.bounds = JStr(BoundsString(0, 0, MaxCoord, MaxCoord))
    /\ \E n \in AllNodes(ret.xml.nodes) :
          /\ n.attrs.displayed = "true"
          /\ n.attrs.bounds = JStr(BoundsString(1, 1, 1, MaxCoord))

\* the string is "[x1,y1][x2,y2]" and nothing else
IsBoundsString(str) == Len(str) = 10 /\ BOUNDS_REGEX(str, 1)

\* half of sum, a half rounding up
IsHalfRoundedUp(c, sum) == 2 * c \in {sum, sum + 1}

\* C21: for all non-negative integers x1<x2 and y1<y2, parsing the bounds
\* string "[x1,y1][x2,y2]" yields the four edges unchanged with
\* centerX = round((x1+x2)/2) and centerY = round((y1+y2)/2), halves
\* rounding up; a malformed string yields absence.
C21_ParseBounds ==
    lastOp = "parseBounds" =>
       /\ \A x1 \in 0..MaxCoord, y1 \in 0..MaxCoord,
             x2 \in 0..MaxCoord, y2 \in 0..MaxCoord :
             (x1 < x2 /\ y1 < y2 /\ ret.boundsStr = BoundsString(x1, y1, x2, y2)) =>
                /\ ret.bounds # Null
                /\ ret.bounds.x1 = x1 /\ ret.bounds.y1 = y1
                /\ ret.bounds.x2 = x2 /\ ret.bounds.y2 = y2
                /\ IsHalfRoundedUp(ret.bounds.centerX, x1 + x2)
                /\ IsHalfRoundedUp(ret.bounds.centerY, y1 + y2)
       /\ ~IsBoundsString(ret.boundsStr) => ret.bounds = Null

\* the attribute is there and is more than whitespace
NonBlank(v) == v # Absent /\ Trim(v.s) # <<>>

\* stable id, visible text or description text
Identifying(attrs) ==
    NonBlank(attrs.resource_id) \/ NonBlank(attrs.text)
       \/ NonBlank(attrs.content_desc)

\* not marked not-displayed; bounds "[x1,y1][x2,y2]" of positive size
VisibleWithValidBounds(attrs) ==
    /\ attrs.displayed # "false"
    /\ attrs.bounds # Absent
    /\ IsBoundsString(attrs.bounds.s)
    /\ attrs.bounds.s[7].n > attrs.bounds.s[2].n
    /\ attrs.bounds.s[9].n > attrs.bounds.s[4].n

Emitted(elements, node) ==
    \E i \in DOMAIN elements : elements[i].className = ClassName(node.attrs)

\* C22: a visible node with valid bounds is emitted by the Tree Pruner if and
\* only if it carries at least one identifying attribute (stable id, visible
\* text or description text) or is marked clickable; so every emitted element
\* has a non-absent id, text or description, or has clickable = true.
C22_EmittedIffIdentifiable ==
    lastOp = "parseAndroidXml" =>
       /\ \A n \in AllNodes(ret.xml.nodes) :
             VisibleWithValidBounds(n.attrs) =>
                (Emitted(ret.elements, n)
                    <=> (Identifying(n.attrs) \/ n.attrs.clickable = "true"))
       /\ \A i \in DOMAIN ret.elements :
             \/ ret.elements[i].resourceId # Null
             \/ ret.elements[i].text # Null
             \/ ret.elements[i].contentDesc # Null
             \/ ret.elements[i].clickable

\* a clickable field whose only text is whitespace is emitted with no id, text
\* or description, and the visible layout around it, which has none of them
\* and is not clickable, is not emitted
C22_Witness ==
    /\ lastOp = "parseAndroidXml"
    /\ Len(ret.elements) = 1
    /\ ret.elements[1].className = "android.widget.EditText"
    /\ ret.elements[1].resourceId = Null
    /\ ret.elements[1].text = Null
    /\ ret.elements[1].contentDesc = Null
    /\ ret.elements[1].clickable
    /\ \E n \in AllNodes(ret.xml.nodes) :
          /\ n.attrs.text = JStr(Pad(1))
          /\ n.attrs.clickable = "true"
    /\ \E n \in AllNodes(ret.xml.nodes) :
          /\ n.attrs.class = "android.widget.FrameLayout"
          /\ VisibleWithValidBounds(n.attrs)
          /\ ~Identifying(n.attrs)

\* the reply came with status 2xx and a body that holds a text
HasText(reply) ==
    /\ reply.fetch = "resolves"
    /\ reply.ok
    /\ reply.json
    /\ reply.content.kind = "text"

\* the first text in braces of the reply is an object with numbers x and y
HasNumericXY(reply, x, y) ==
    /\ HasText(reply)
    /\ \E k \in DOMAIN reply.content.parts :
          /\ \A j \in 1..(k - 1) : reply.content.parts[j].p = "words"
          /\ reply.content.parts[k].p = "json"
          /\ reply.content.parts[k].v.o.x = JNum(x)
          /\ reply.content.parts[k].v.o.y = JNum(y)

\* C23: the vision-fallback function never raises to its caller: on a
\* transport error, a non-2xx response, empty content, unparseable content or
\* an object lacking numeric x and y it returns absence, and it returns a
\* coordinate pair only when the parsed object has numeric x and y.
C23_VisionFallbackNeverRaises ==
    lastOp = "visionFallback" =>
       /\ ret.result # Raised
       /\ ret.result # Null =>
             /\ DOMAIN ret.result = {"x", "y"}
             /\ HasNumericXY(ret.reply, ret.result.x, ret.result.y)
       /\ (~HasText(ret.reply) \/ ret.reply.content.parts = <<>>) =>
             ret.result = Null

\* a coordinate pair is returned from a reply of prose followed by an object
C23_Witness ==
    /\ lastOp = "visionFallback"
    /\ ret.result # Null
    /\ Len(ret.reply.content.parts) = 2
    /\ ret.reply.content.parts[1].p = "words"
    /\ ret.result.x = MaxCoord

\* the driver operations among the calls made, in order
IsDriverOp(call) == call.op \in {"tap", "type", "waitFor", "swipe"}
DriverOps(calls) == SelectSeq(calls, IsDriverOp)

LocateFound(r) == ~r.located.raised /\ r.located.result.found
LocateNotFound(r) == ~r.located.raised /\ ~r.located.result.found

\* C24: locateAndTap invokes the driver's tap exactly once, at the
\* coordinates returned by locate, when locate reports found; when locate
\* reports not found it invokes no tap and fails with a location error
\* carrying the element description.
C24_LocateAndTap ==
    lastOp = "locateAndTap" =>
       /\ LocateFound(ret) =>
             DriverOps(trace) = <<TapCall(ret.located.result.x,
                                          ret.located.result.y)>>
       /\ LocateNotFound(ret) =>
             /\ DriverOps(trace) = <<>>
             /\ ret.raised
             /\ ret.error.message = "Failed to locate element"
             /\ ret.error.elementDescription = ret.elementDescription

\* the element was found by the vision fallback and tapped where it was found
C24_Witness ==
    /\ lastOp = "locateAndTap"
    /\ LocateFound(ret)
    /\ ret.located.result.method = "vision"
    /\ ~ret.raised
    /\ DriverOps(trace) = <<TapCall(ret.value.x, ret.value.y)>>

\* C25: locateAndType performs its driver operations in the order tap,
\* fixed 200 ms settle wait, type; the text is never typed before the tap
\* and the wait have completed, and never typed at all when location fails.
C25_LocateAndTypeOrder ==
    lastOp = "locateAndType" =>
       /\ \/ DriverOps(trace) = <<>>
          \/ DriverOps(trace) = <<TapCall(ret.located.result.x,
                                          ret.located.result.y)>>
          \/ DriverOps(trace) = <<TapCall(ret.located.result.x,
                                          ret.located.result.y),
                                  WaitCall(200), TypeCall(ret.text)>>
       /\ ~ret.raised => Len(DriverOps(trace)) = 3
       /\ ~LocateFound(ret) => DriverOps(trace) = <<>>

\* the text was typed after the tap and the wait
C25_Witness ==
    /\ lastOp = "locateAndType"
    /\ ~ret.raised
    /\ Len(DriverOps(trace)) = 3
    /\ DriverOps(trace)[3] = TypeCall("testuser")

IsTap(call) == call.op = "tap"
Taps(calls) == SelectSeq(calls, IsTap)
Supplied(a) == a.x # Undef /\ a.y # Undef

\* the click of the Executor when `hinted` tells whether the action carries
\* a locator-selector hint
ClickAsSpecified(hinted, a, outcome, calls) ==
    IF hinted
    THEN /\ calls # <<>> /\ calls[1] = Call("trySelector")
         /\ Len(Taps(calls)) <= 2
         /\ outcome = "ok" => Taps(calls) # <<>>
         /\ Len(Taps(calls)) = 2 => Taps(calls)[2] = TapCall(a.x, a.y)
         /\ ~Supplied(a) => Len(Taps(calls)) <= 1
         /\ (outcome = "failed" /\ Supplied(a)) =>
               /\ Taps(calls) # <<>>
               /\ Taps(calls)[Len(Taps(calls))] = TapCall(a.x, a.y)
    ELSE /\ ~Called(calls, "trySelector")
         /\ Supplied(a) => Taps(calls) = <<TapCall(a.x, a.y)>>
         /\ ~Supplied(a) => (outcome = "failed" /\ calls = <<>>)

\* C26 as stated: for a click action, whenever a locator-selector hint is
\* present the Executor runs locateAndTap first, and if that fails it taps
\* the explicit coordinates when both x and y are supplied and otherwise
\* fails; when no hint is present it taps the explicit coordinates directly
\* and fails if x or y is missing.
C26_ClickByHintThenCoordinates ==
    (lastOp = "executor" /\ ret.action.action = "click") =>
        ClickAsSpecified(ret.action.selector # NoSelector,
                         ret.action, ret.outcome, trace)

IsType(call) == call.op = "type"
Types(calls) == SelectSeq(calls, IsType)

\* the type of the Executor when `hinted` tells whether the action carries a
\* locator hint
TypeAsSpecified(hinted, a, outcome, calls) ==
    IF a.text \in {NoText, ""}
    THEN outcome = "failed" /\ calls = <<>>
    ELSE IF hinted
    THEN /\ calls # <<>> /\ calls[1] = Call("trySelector")
         /\ Types(calls) # <<>>
         /\ \A i \in DOMAIN Types(calls) : Types(calls)[i] = TypeCall(a.text)
         /\ Len(Types(calls)) <= 2
    ELSE /\ ~Called(calls, "trySelector")
         /\ Taps(calls) = <<>>
         /\ Types(calls) = <<TypeCall(a.text)>>

\* C27 as stated: for a type action, with missing or empty text the Executor
\* fails without invoking any driver operation; with a locator hint it runs
\* locateAndType and, if that fails, types the text into the current focus;
\* with no hint it types directly into the current focus.
C27_TypeByHintThenFocus ==
    (lastOp = "executor" /\ ret.action.action = "type") =>
        TypeAsSpecified(ret.action.selector # NoSelector,
                        ret.action, ret.outcome, trace)

\* C28: when an Executor action fails (location failure with no fallback,
\* missing required parameter, unrecognized action kind, or a driver
\* operation raising), the failure is caught and the state changes by
\* exactly: one error appended, retryCount increased by one, and one
\* "FAILED: ..." entry appended to the action history; isComplete, iteration,
\* screenshot, element list and the pending action are unchanged.
C28_FailureIsCaughtAndCounted ==
    [][(lastOp' = "executor" /\ ret'.outcome = "failed") =>
          /\ pc' = "router"
          /\ state' = [state EXCEPT !.errors = @ \o <<"executor">>,
                                    !.retryCount = @ + 1,
                                    !.actionHistory = @ \o <<"FAILED">>]]_vars

\* an action of a kind the Executor does not know has failed, after a capture
\* had failed as well
C28_Witness ==
    /\ lastOp = "executor"
    /\ ret.outcome = "failed"
    /\ ret.action.action = "longPress"
    /\ state.errors = <<"observer", "executor">>
    /\ state.retryCount = 1
    /\ state.actionHistory = <<"FAILED">>
    /\ state.lastAction = ret.action

\* C29: when no action is pending (the action slot is null), the Executor is
\* a no-op: it invokes no driver operation, appends no healing event, and
\* leaves every state field unchanged.
C29_NoActionNoOp ==
    [][(lastOp' = "executor" /\ state.lastAction = NullAction) =>
          /\ trace' = <<>>
          /\ healingLog' = healingLog
          /\ state' = state]_vars

\* the Executor has run after the first Reasoning stage failed
C29_Witness ==
    /\ lastOp = "executor"
    /\ ret.outcome = "noop"
    /\ state.lastAction = NullAction
    /\ state.errors = <<"reasoner">>
    /\ state.retryCount = 1
    /\ trace = <<>>

IsPrefix(s, t) == Len(s) <= Len(t) /\ SubSeq(t, 1, Len(s)) = s

\* C30: across any run the action history and the error sequence are
\* append-only: at every later state each of them has its value at every
\* earlier state as a prefix (step by step, the prefix order being transitive).
C30_AppendOnly ==
    [][/\ IsPrefix(state.actionHistory, state'.actionHistory)
       /\ IsPrefix(state.errors, state'.errors)]_vars

\* a run that has added to a history and to an error sequence that were not
\* empty
C30_Witness ==
    /\ Len(state.actionHistory) >= 3
    /\ Len(state.errors) >= 2
    /\ state.actionHistory[1] = "Clicked"
    /\ state.actionHistory[Len(state.actionHistory)] = "FAILED"
    /\ pc = "returned"

\* C31 as stated: every pass through the Observing stage advances the
\* iteration counter by exactly one, so at every point of a run the iteration
\* counter equals the number of perceive-reason-act cycles started so far and
\* never decreases.
C31_IterationCountsCycles ==
    [][/\ lastOp' = "observer" => state'.iteration = state.iteration + 1
       /\ state'.iteration = observerRuns'
       /\ state'.iteration >= state.iteration]_vars

\* the order in which the captures would have settled had the other one been
\* the first
OtherOrder(settled) ==
    IF Len(settled) = 2 THEN <<settled[2], settled[1]>>
    ELSE IF settled[1] = "getScreenshot"
         THEN <<"getPageSource", "getScreenshot">>
         ELSE <<"getScreenshot", "getPageSource">>

\* C32 as stated: in the Observing stage the screenshot capture and the
\* hierarchy capture may complete in either order with the same resulting
\* state; pruning starts only after both have completed; and the screenshot
\* and element list are updated together, so after any Observing stage
\* either both come from the same observation cycle or both are unchanged.
C32_CapturesInEitherOrder ==
    [][lastOp' = "observer" =>
          /\ state' = Merge(state, AwaitedPatch(observerRuns + 1,
                               PromiseAll(ret', OtherOrder(ret'.settled))))
          /\ ret'.outcome = "ok" => Len(ret'.settled) = 2
          /\ \/ state'.screenshot = observerRuns' /\ state'.uiTree = observerRuns'
             \/ state'.screenshot = state.screenshot /\ state'.uiTree = state.uiTree]_vars

\* C33: no lookup result, of a driver's findBy... or of
\* HybridLocator.locate, has found = false together with coordinates.
C33_NotFoundHasNoCoordinates ==
    lastOp = "locate" =>
        /\ ~ret.sel.raised /\ ~ret.sel.found => ret.sel.x = Undef /\ ret.sel.y = Undef
        /\ ~ret.raised /\ ~ret.result.found =>
              ret.result.x = Undef /\ ret.result.y = Undef

\* a driver lookup that saw the element and then failed, and the locate call
\* that found nothing after it
C33_Witness ==
    /\ lastOp = "locate"
    /\ Called(trace, "findByText")
    /\ ~ret.raised
    /\ ~ret.sel.found
    /\ ret.sel.error = FindError
    /\ ~ret.result.found

\* C34 as stated: the healing log is append-only: after any sequence of
\* Hybrid Locator operations its length never decreases and no previously
\* logged event is removed or altered.
C34_HealingLogAppendOnly ==
    [][/\ Len(healingLog') >= Len(healingLog)
       /\ IsPrefix(healingLog, healingLog')]_vars

\* C35 as stated: a summary obtained from HealingLogger.getSummary is a
\* point-in-time snapshot: its counts and its event sequence are not changed
\* by logEvent calls made after it was obtained.
C35_SummaryIsSnapshot ==
    [][ret # Null /\ lastOp' = "logEvent" =>
          Read(ret', healingLog') = Read(ret, healingLog)]_vars

\* the locate attempts logged among the calls made so far
LocateAttempts(calls) ==
    Cardinality({i \in DOMAIN calls : calls[i].op = "logEvent"})

\* C36 as stated: for the triple returned by createExecutorWithHealingAccess,
\* getHealingStats reports the locate attempts made by the returned
\* executor: after the executor performs k locate attempts,
\* getHealingStats().totalAttempts is k.
C36_StatsReportExecutorAttempts ==
    lastOp = "getHealingStats" => ret.totalAttempts = LocateAttempts(trace)

Disconnects(calls) ==
    Cardinality({i \in DOMAIN calls : calls[i].op = "disconnect"})

\* C37: runAutomation calls the driver's disconnect exactly once on every
\* run, after the loop has finished, whether the run returns a result,
\* runGraph raises, or connect itself raises: disconnect is called in the
\* one step that ends the run, once, from a state where connect or the loop
\* has ended, and nothing follows that step.
C37_DisconnectExactlyOnce ==
    [][/\ pc \notin {"returned", "rejected"}
       /\ \/ /\ pc \in {"done", "thrown"}
             /\ pc' = (IF pc = "done" THEN "returned" ELSE "rejected")
             /\ Disconnects(trace') = 1
          \/ /\ pc' \notin {"returned", "rejected"}
             /\ Disconnects(trace') = 0]_vars

\* connect raised, and the run ended with the driver disconnected
C37_Witness ==
    /\ pc = "rejected"
    /\ steps = 0
    /\ lastOp = "runAutomation"
    /\ Disconnects(trace) = 1

\* C38 as stated: in every reachable state of the loop 0 <= retryCount <= 3:
\* retryCount rises by at most one per perceive-reason-act cycle (by at most
\* one in a step, and not in the Executor when the Reasoner of the same
\* cycle has raised it) and never exceeds the retry budget.
C38_RetryCountWithinBudget ==
    /\ [](0 <= state.retryCount /\ state.retryCount <= MAX_RETRIES)
    /\ [][/\ state'.retryCount <= state.retryCount + 1
          /\ (lastOp = "reasoner" /\ ret.outcome = "failed" /\ lastOp' = "executor")
                => state'.retryCount <= state.retryCount]_vars

\* C39: after any sequence of locate and clearHealingLog calls,
\* getHealingStats satisfies totalAttempts = selectorSuccesses +
\* visionSuccesses + failures, and every logged event is exactly one of
\* success by selector, success by vision, or failure.
C39_AttemptsAddUp ==
    /\ \A i \in DOMAIN healingLog :
          Cardinality({kind \in {"selector", "vision", "failure"} :
              \/ kind = "selector" /\ IsSelectorSuccess(healingLog[i])
              \/ kind = "vision" /\ IsVisionSuccess(healingLog[i])
              \/ kind = "failure" /\ IsFailure(healingLog[i])}) = 1
    /\ lastOp = "getHealingStats" =>
          ret.totalAttempts
              = ret.selectorSuccesses + ret.visionSuccesses + ret.failures

\* statistics asked for after two attempts, one healed by vision and one
\* failed
C39_Witness ==
    /\ lastOp = "getHealingStats"
    /\ ret.totalAttempts = 2
    /\ ret.visionSuccesses = 1
    /\ ret.failures = 1

FindByOps == {"findByAccessibilityId", "findByResourceId", "findByText"}

====
